---------------------------- MODULE Spec2Model ----------------------------
(***************************************************************************)
(* A model of the EMC2101 driver (feeph/libemc2101-python).                *)
(*                                                                         *)
(* The device is a bank of byte registers behind a register port.  The    *)
(* driver's handlers are sequences of register-port transactions; each    *)
(* handler is one action, and an I/O fault of the register port cuts the  *)
(* handler's transaction sequence short (Python propagates the exception, *)
(* no handler catches it).                                                 *)
(***************************************************************************)
EXTENDS Integers, Sequences, FiniteSets, TLC

VARIABLES
    regs,       \* the chip's registers: address -> byte
    step_max,   \* Emc2101_core._step_max
    op,         \* name of the handler that ran last
    arg,        \* its argument
    ret,        \* what it returned or raised
    wlog,       \* addresses it wrote, in order
    pre_cfg,    \* register 0x4A as the handler found it
    fault_at,   \* which of its transactions the register port failed (0: none)
    has_facade, \* an Emc2101_PWM object exists
    scs_steps,  \* Emc2101_PWM._scs._steps, in iteration order: <<step, percent, rpm>>
    max_rpm,    \* Emc2101_PWM._max_rpm
    pin_six_mode, \* Emc2101_PWM._pin_six_mode
    scs_duty,   \* Emc2101_PWM._scs: <<_duty_min, _duty_max>>
    fan_config, \* the fan configuration the facade was constructed with
    result,     \* the number a handler returned (NONE: it returned no number)
    cal,        \* the frame of calibrate_pwm_fan: its position and its locals
    call,       \* a call of a pure function: its name, argument, position and value
    callers     \* two callers of update_lookup_table on the device: their frames

lutvars == <<regs, step_max, op, arg, ret, wlog, pre_cfg, fault_at>>
devvars == <<has_facade, scs_steps, max_rpm, pin_six_mode, scs_duty, fan_config, result>>
vars == <<lutvars, devvars, cal, call, callers>>

-----------------------------------------------------------------------------
(* Register addresses *)

REG_EXT_TEMP_MSB == 1     \* 0x01
REG_STATUS       == 2     \* 0x02
REG_CONFIG       == 3     \* 0x03
REG_IDEALITY     == 18    \* 0x12
REG_BETA         == 24    \* 0x18
REG_TACH_LIMIT_LSB == 72  \* 0x48
REG_TACH_LIMIT_MSB == 73  \* 0x49
REG_FANCFG       == 74    \* 0x4A
REG_SPINUP       == 75    \* 0x4B
REG_FAN_SETTING  == 76    \* 0x4C
REG_PWM_F        == 77    \* 0x4D
REG_PWM_D        == 78    \* 0x4E
REG_LUT_BASE     == 80    \* 0x50
LUT_BYTES        == 16    \* 0x50..0x5F
LUT_SLOTS        == 8

LutAddrs == REG_LUT_BASE .. (REG_LUT_BASE + LUT_BYTES - 1)

RegAddrs == {REG_EXT_TEMP_MSB, REG_STATUS, REG_CONFIG, REG_IDEALITY, REG_BETA,
             REG_TACH_LIMIT_LSB, REG_TACH_LIMIT_MSB, REG_FANCFG, REG_SPINUP,
             REG_FAN_SETTING, REG_PWM_F, REG_PWM_D} \cup LutAddrs

NONE == -1                \* Python's None where a number is expected

(* Emc2101_core.__init__ *)
STEP_MIN == 0
STEP_MAX_DEFAULT == 63
TEMP_MIN == 0
TEMP_MAX == 100

(* bit masks *)
LUT_DISABLE_BIT == 32     \* 0b0010_0000 of register 0x4A
SENSOR_FAULT_MSB == 127   \* 0b0111_1111 in register 0x01
DIODE_FAULT_BIT == 4      \* 0b0000_0100 of register 0x02

HasBit(v, w) == (v \div w) % 2 = 1
OrBit(v, w)  == IF HasBit(v, w) THEN v ELSE v + w      \* v | w, w a single bit
ClrBit(v, w) == IF HasBit(v, w) THEN v - w ELSE v      \* v & ~w, w a single bit

-----------------------------------------------------------------------------
(* Register-port transactions *)

Rd(a)    == [k |-> "r", a |-> a, v |-> 0]
Wr(a, v) == [k |-> "w", a |-> a, v |-> v]

RECURSIVE ApplyTrans(_, _)
ApplyTrans(r, ts) ==
    IF ts = <<>> THEN r
    ELSE ApplyTrans(IF Head(ts).k = "w" THEN [r EXCEPT ![Head(ts).a] = Head(ts).v] ELSE r,
                    Tail(ts))

IsWrite(t) == t.k = "w"

WritesOf(ts) ==
    LET ws == SelectSeq(ts, IsWrite) IN [i \in 1..Len(ws) |-> ws[i].a]

(* as if the failed transaction were caught and the handler went on *)
ExecutedSkipping(ts, fault) ==
    IF fault = 0 \/ fault > Len(ts) THEN ts
    ELSE SubSeq(ts, 1, fault - 1) \o SubSeq(ts, fault + 1, Len(ts))

(* The transactions that take effect when the fault-th one fails (0: none *)
(* fails): the exception leaves the handler, nothing after it runs.       *)
Executed(ts, fault) ==
    IF fault = 0 \/ fault > Len(ts) THEN ts ELSE SubSeq(ts, 1, fault - 1)

Faulted(ts, fault) == fault > 0 /\ fault <= Len(ts)

-----------------------------------------------------------------------------
(* Emc2101_core: the lookup table *)

(* A handler's outcome: the registers it leaves, what it returned or raised, *)
(* and the addresses it wrote.                                               *)
Outcome(r, ts, fault, value) ==
    [regs |-> ApplyTrans(r, Executed(ts, fault)),
     ret  |-> IF Faulted(ts, fault) THEN "IOError" ELSE value,
     wlog |-> WritesOf(Executed(ts, fault))]

Raised(r, what) == [regs |-> r, ret |-> what, wlog |-> <<>>]

BoolStr(b) == IF b THEN "True" ELSE "False"

(* has_external_sensor: the external diode reads 0x7F when it is missing *)
has_external_sensor(r) == r[REG_EXT_TEMP_MSB] # SENSOR_FAULT_MSB

(* as if the whole register were compared with the mask *)
lut_enabled_below_mask(r) == r[REG_FANCFG] < LUT_DISABLE_BIT

lut_enabled(r) == ~HasBit(r[REG_FANCFG], LUT_DISABLE_BIT)

is_lookup_table_enabled_trans == <<Rd(REG_FANCFG)>>

enable_lookup_table_trans(r) ==
    <<Rd(REG_FANCFG), Wr(REG_FANCFG, ClrBit(r[REG_FANCFG], LUT_DISABLE_BIT))>>

disable_lookup_table_trans(r) ==
    <<Rd(REG_FANCFG), Wr(REG_FANCFG, OrBit(r[REG_FANCFG], LUT_DISABLE_BIT))>>

is_lookup_table_enabled(r, fault) ==
    Outcome(r, is_lookup_table_enabled_trans, fault, BoolStr(lut_enabled(r)))

enable_lookup_table(r, fault) ==
    Outcome(r, enable_lookup_table_trans(r), fault, "True")

disable_lookup_table(r, fault) ==
    Outcome(r, disable_lookup_table_trans(r), fault, "None")

values_valid_count_only(values, smax) == Len(values) <= LUT_SLOTS

(* update_lookup_table: the checks before the first transaction *)
values_valid(values, smax) ==
    /\ Len(values) <= LUT_SLOTS
    /\ \A i \in 1..Len(values) :
          /\ TEMP_MIN <= values[i][1] /\ values[i][1] <= TEMP_MAX
          /\ STEP_MIN <= values[i][2] /\ values[i][2] <= smax

(* the burst of writes to 0x50..0x5F: the provided pairs, then zeros *)
RECURSIVE provided_writes(_, _)
provided_writes(values, offset) ==
    IF values = <<>> THEN <<>>
    ELSE <<Wr(REG_LUT_BASE + offset, Head(values)[1]),
           Wr(REG_LUT_BASE + offset + 1, Head(values)[2])>>
         \o provided_writes(Tail(values), offset + 2)

RECURSIVE fill_writes(_)
fill_writes(offset) ==
    IF offset >= LUT_BYTES THEN <<>>
    ELSE <<Wr(REG_LUT_BASE + offset, 0), Wr(REG_LUT_BASE + offset + 1, 0)>>
         \o fill_writes(offset + 2)

lut_writes_nofill(values) == provided_writes(values, 0)

lut_writes(values) == provided_writes(values, 0) \o fill_writes(2 * Len(values))

reenable_trans_never(r, reenable_lut) == <<>>

(* the tail of update_lookup_table: re-enable if the table was enabled *)
reenable_trans(r, reenable_lut) ==
    IF reenable_lut THEN enable_lookup_table_trans(r) ELSE <<>>

(* as if the slots were written with the table as it is found *)
update_lookup_table_trans_as_found(r, values) ==
    is_lookup_table_enabled_trans \o lut_writes(values)

update_lookup_table_trans(r, values) ==
    LET reenable_lut == lut_enabled(r)
        head == is_lookup_table_enabled_trans
                \o (IF reenable_lut THEN disable_lookup_table_trans(r) ELSE <<>>)
        body == head \o lut_writes(values)
    IN  body \o reenable_trans(ApplyTrans(r, body), reenable_lut)

update_lookup_table(r, smax, values, fault) ==
    IF ~values_valid(values, smax) THEN Raised(r, "ValueError")
    ELSE Outcome(r, update_lookup_table_trans(r, values), fault, "True")

(* as if reset restored the enabled state the way update does *)
reset_lookup_table_trans_restoring(r) == update_lookup_table_trans(r, <<>>)

reset_lookup_table_trans(r) == disable_lookup_table_trans(r) \o fill_writes(0)

reset_lookup_table(r, fault) == Outcome(r, reset_lookup_table_trans(r), fault, "None")

(* configure_pwm_control: PWM mode, the dividers, the highest step *)
DAC_BIT == 16             \* 0b0001_0000 of register 0x03

configure_pwm_control_trans(r, pwm_d, pwm_f) ==
    <<Rd(REG_CONFIG), Wr(REG_CONFIG, ClrBit(r[REG_CONFIG], DAC_BIT)),
      Wr(REG_PWM_F, pwm_f), Wr(REG_PWM_D, pwm_d)>>

configure_pwm_control(r, pwm_d, pwm_f, fault) ==
    Outcome(r, configure_pwm_control_trans(r, pwm_d, pwm_f), fault, "None")

-----------------------------------------------------------------------------
(* Inputs of the lookup-table specification *)

MaxEntries == 9           \* longest map offered to update_lookup_table

TempVals == {-1, 0, 100, 101}
StepVals == {-1, 0, 63, 64}

DefaultEntry(i) == <<16 + 8 * (i - 1), 2 + i>>

EntryVariants(i) ==
    {<<t, DefaultEntry(i)[2]>> : t \in TempVals}
    \cup {<<DefaultEntry(i)[1], s>> : s \in StepVals}

DefaultMap(k) == [i \in 1..k |-> DefaultEntry(i)]

(* maps with distinct temperatures, in iteration order: 0..MaxEntries    *)
(* ordinary entries, a single entry at a boundary of the ranges, and two *)
(* entries of which the first is out of range                            *)
LutInputs ==
    {DefaultMap(k) : k \in 0..MaxEntries}
    \cup {<<e>> : e \in EntryVariants(1)}
    \cup {<<e, DefaultEntry(2)>> : e \in {<<-1, 3>>, <<101, 3>>, <<16, -1>>, <<16, 64>>}}

InitCfg == 3              \* 0b0000_0011: table enabled, tachometer mode bits set

SensorStates == { <<27, 0>>, <<SENSOR_FAULT_MSB, DIODE_FAULT_BIT>> }

InitRegs(cfg, sensor) ==
    [a \in RegAddrs |->
        IF a = REG_FANCFG THEN cfg
        ELSE IF a = REG_EXT_TEMP_MSB THEN sensor[1]
        ELSE IF a = REG_STATUS THEN sensor[2]
        ELSE IF a = REG_PWM_F THEN 23
        ELSE IF a = REG_PWM_D THEN 1
        ELSE IF a \in {REG_TACH_LIMIT_LSB, REG_TACH_LIMIT_MSB} THEN 255
        ELSE IF a = REG_SPINUP THEN 63
        ELSE IF a = REG_BETA THEN 8
        ELSE 0]

(* fan_configs.FanConfig *)
FanConfig(mode, min_duty, max_duty, min_rpm, maxrpm, frequency, steps) ==
    [rpm_control_mode |-> mode, minimum_rpm |-> min_rpm, maximum_rpm |-> maxrpm,
     pwm_frequency |-> frequency, minimum_duty_cycle |-> min_duty,
     maximum_duty_cycle |-> max_duty, steps |-> steps]

NoFanConfig == FanConfig("None", NONE, NONE, NONE, NONE, 0, <<>>)

WINDOW == <<99999, 99999, 99999>>     \* readings before the first sample

(* calibrate_pwm_fan has not been called *)
CalIdle ==
    [pc |-> "idle", ret |-> "None", pwm_frequency |-> 0, steps_list |-> <<>>,
     step1 |-> NONE, step2 |-> NONE, rpm1 |-> NONE, rpm2 |-> NONE,
     step |-> NONE, i |-> 0, readings |-> WINDOW, rpm_cur |-> NONE, rpm |-> NONE,
     mappings |-> <<>>, fan_profile |-> NoFanConfig,
     unreadable |-> FALSE]     \* a sample read the count 0xFFFF

(* no pure function has been called *)
NoCall == [fn |-> "None", arg |-> <<>>, pc |-> "idle", out |-> <<>>, raised |-> "None"]

(* a caller's frame of update_lookup_table: not called yet *)
NoFrame == [pc |-> "idle", values |-> <<>>, reenable_lut |-> FALSE, value |-> 0,
            writes |-> <<>>]

(* nobody calls update_lookup_table concurrently *)
NoCallers == [locked |-> FALSE, holder |-> 0, frames |-> <<NoFrame, NoFrame>>,
              enabled_write |-> FALSE, split_burst |-> FALSE]

(* no facade object yet *)
NoFacade ==
    /\ has_facade = FALSE /\ scs_steps = <<>> /\ max_rpm = 0
    /\ pin_six_mode = "None" /\ result = NONE
    /\ scs_duty = <<NONE, NONE>> /\ fan_config = NoFanConfig

LutInit ==
    /\ regs \in {InitRegs(InitCfg, s) : s \in SensorStates}
    /\ step_max = STEP_MAX_DEFAULT
    /\ op = "init" /\ arg = <<>> /\ ret = "None" /\ wlog = <<>>
    /\ pre_cfg = regs[REG_FANCFG]
    /\ fault_at = 0
    /\ NoFacade
    /\ cal = CalIdle
    /\ call = NoCall
    /\ callers = NoCallers

(* A handler ran: record its outcome.  A fault of the register port is  *)
(* fatal to the caller (no handler recovers from it): nothing runs after *)
(* it.                                                                   *)
Ran(name, a, res, fault) ==
    /\ ret # "IOError"
    /\ fault_at' = fault
    /\ regs' = res.regs
    /\ op' = name /\ arg' = a /\ ret' = res.ret /\ wlog' = res.wlog
    /\ pre_cfg' = regs[REG_FANCFG]
    /\ UNCHANGED <<cal, call, callers>>

IsLookupTableEnabled ==
    \E fault \in 0..Len(is_lookup_table_enabled_trans) :
        /\ Ran("is_lookup_table_enabled", <<>>, is_lookup_table_enabled(regs, fault), fault)
        /\ UNCHANGED <<step_max, devvars>>

EnableLookupTable ==
    \E fault \in 0..Len(enable_lookup_table_trans(regs)) :
        /\ Ran("enable_lookup_table", <<>>, enable_lookup_table(regs, fault), fault)
        /\ UNCHANGED <<step_max, devvars>>

DisableLookupTable ==
    \E fault \in 0..Len(disable_lookup_table_trans(regs)) :
        /\ Ran("disable_lookup_table", <<>>, disable_lookup_table(regs, fault), fault)
        /\ UNCHANGED <<step_max, devvars>>

UpdateLookupTable ==
    \E values \in LutInputs :
        \E fault \in 0..(IF values_valid(values, step_max)
                         THEN Len(update_lookup_table_trans(regs, values)) ELSE 0) :
            /\ Ran("update_lookup_table", values,
                   update_lookup_table(regs, step_max, values, fault), fault)
            /\ UNCHANGED <<step_max, devvars>>

ResetLookupTable ==
    \E fault \in 0..Len(reset_lookup_table_trans(regs)) :
        /\ Ran("reset_lookup_table", <<>>, reset_lookup_table(regs, fault), fault)
        /\ UNCHANGED <<step_max, devvars>>

LutNext ==
    \/ IsLookupTableEnabled
    \/ EnableLookupTable
    \/ DisableLookupTable
    \/ UpdateLookupTable
    \/ ResetLookupTable

Spec == LutInit /\ [][LutNext]_vars

-----------------------------------------------------------------------------
(* Properties of the lookup table *)

SlotTemp(i) == regs[REG_LUT_BASE + 2 * (i - 1)]
SlotStep(i) == regs[REG_LUT_BASE + 2 * (i - 1) + 1]

UpdateSucceeded == op = "update_lookup_table" /\ ret = "True"

(* C1: after a successful update_lookup_table the k provided pairs are in *)
(* slots 1..k in iteration order and every other slot is (0, 0).          *)
C1_UpdateFillsTable ==
    UpdateSucceeded =>
        \A i \in 1..LUT_SLOTS :
            IF i <= Len(arg)
            THEN SlotTemp(i) = arg[i][1] /\ SlotStep(i) = arg[i][2]
            ELSE SlotTemp(i) = 0 /\ SlotStep(i) = 0

C1_Witness ==
    /\ UpdateSucceeded /\ Len(arg) = 2
    /\ SlotTemp(2) = 24 /\ SlotStep(2) = 4 /\ SlotTemp(3) = 0

(* C2: a successful update_lookup_table leaves register 0x4A, and so the *)
(* enabled state of the table, as it found it.                           *)
C2_UpdateRestoresEnabled ==
    UpdateSucceeded =>
        /\ regs[REG_FANCFG] = pre_cfg
        /\ lut_enabled(regs) <=> ~HasBit(pre_cfg, LUT_DISABLE_BIT)

C2_Witness ==
    /\ UpdateSucceeded
    /\ ~HasBit(pre_cfg, LUT_DISABLE_BIT)
    /\ Len(wlog) = LUT_BYTES + 2
    /\ wlog[1] = REG_FANCFG /\ wlog[Len(wlog)] = REG_FANCFG
    /\ lut_enabled(regs)

OutOfRange(values) ==
    \/ Len(values) > 8
    \/ \E i \in 1..Len(values) :
          \/ values[i][1] < TEMP_MIN \/ values[i][1] > TEMP_MAX
          \/ values[i][2] < STEP_MIN \/ values[i][2] > step_max

C4_EnableNeedsSensor ==
    (op = "enable_lookup_table" /\ fault_at = 0) =>
        /\ ret = "True" => has_external_sensor(regs)
        /\ ~has_external_sensor(regs) => (ret = "False" /\ ~lut_enabled(regs))

DisableDone == Len(is_lookup_table_enabled_trans) + 2

(* C5: when update_lookup_table has disabled the table and a later       *)
(* transaction fails, the fault reaches the caller, the table is left    *)
(* disabled and register 0x4A is not written again.                      *)
C5_FaultLeavesTableDisabled ==
    (op = "update_lookup_table" /\ ~HasBit(pre_cfg, LUT_DISABLE_BIT)
     /\ fault_at > DisableDone) =>
        /\ ret = "IOError"
        /\ ~lut_enabled(regs)
        /\ wlog[1] = REG_FANCFG
        /\ \A i \in 2..Len(wlog) : wlog[i] # REG_FANCFG

C5_Witness ==
    /\ op = "update_lookup_table" /\ ~HasBit(pre_cfg, LUT_DISABLE_BIT)
    /\ fault_at = DisableDone + LUT_BYTES + 2
    /\ ret = "IOError" /\ ~lut_enabled(regs)

-----------------------------------------------------------------------------
(* Emc2101_core: pin six, minimum RPM, driver strength, external sensor *)

ALT_TACH_BIT == 4         \* 0b0000_0100 of register 0x03
MIN_RPM == 82             \* _convert_rpm2tach rejects anything lower
TACH_LIMIT == 4096        \* the count _convert_rpm2tach settles on

configure_pin_six_as_alert_trans(r) ==
    <<Rd(REG_CONFIG), Wr(REG_CONFIG, ClrBit(r[REG_CONFIG], ALT_TACH_BIT)),
      Wr(REG_SPINUP, 0)>>

configure_pin_six_as_tacho_trans(r) ==
    <<Rd(REG_CONFIG), Wr(REG_CONFIG, OrBit(r[REG_CONFIG], ALT_TACH_BIT))>>

(* _convert_rpm2tach: <<msb, lsb>>; the computed count is overwritten *)
_convert_rpm2tach(rpm) == <<(TACH_LIMIT \div 256) % 256, TACH_LIMIT % 256>>

configure_minimum_rpm_trans(minimum_rpm) ==
    <<Wr(REG_TACH_LIMIT_LSB, _convert_rpm2tach(minimum_rpm)[2]),
      Wr(REG_TACH_LIMIT_MSB, _convert_rpm2tach(minimum_rpm)[1])>>

minimum_rpm_valid(minimum_rpm) == minimum_rpm >= MIN_RPM

configure_minimum_rpm(r, minimum_rpm) ==
    IF minimum_rpm_valid(minimum_rpm)
    THEN Outcome(r, configure_minimum_rpm_trans(minimum_rpm), 0, "None")
    ELSE Raised(r, "ValueError")

(* the driver strength read back without having been written *)
set_driver_strength_trans_readonly(smax, step) == <<Rd(REG_FAN_SETTING)>>

set_driver_strength_trans(smax, step) ==
    (IF STEP_MIN <= step /\ step <= smax THEN <<Wr(REG_FAN_SETTING, step)>> ELSE <<>>)
    \o <<Rd(REG_FAN_SETTING)>>

configure_external_temperature_sensor_trans(r, dif, bcf) ==
    <<Rd(REG_STATUS)>>
    \o (IF ~HasBit(r[REG_STATUS], DIODE_FAULT_BIT)
        THEN <<Wr(REG_IDEALITY, dif), Wr(REG_BETA, bcf)>> ELSE <<>>)

-----------------------------------------------------------------------------
(* utilities.calculate_pwm_factors *)

MAX_PWM_FREQUENCY == 180000
PWM_F_MAX == 31

Abs(x) == IF x < 0 THEN 0 - x ELSE x

CeilDiv(n, d) == (n + d - 1) \div d

(* Python's round() of n/d: to the nearest integer, ties to the even one *)
RoundHalfEven(n, d) ==
    LET q == n \div d
        twice == 2 * (n % d)
    IN IF twice < d THEN q
       ELSE IF twice > d THEN q + 1
       ELSE IF q % 2 = 0 THEN q ELSE q + 1

(* what calculate_pwm_factors raises: a frequency out of range is rejected, *)
(* a frequency of 0 passes the range check and divides by zero             *)
calculate_pwm_factors_raises(f) ==
    IF ~(0 <= f /\ f <= MAX_PWM_FREQUENCY) THEN "ValueError"
    ELSE IF f = 0 THEN "ZeroDivisionError"
    ELSE "None"

(* <<pwm_d, pwm_f>> for a frequency it accepts *)
calculate_pwm_factors(f) ==
    LET pwm_d == CeilDiv(MAX_PWM_FREQUENCY, PWM_F_MAX * f)
    IN <<pwm_d, RoundHalfEven(MAX_PWM_FREQUENCY, f * pwm_d)>>

-----------------------------------------------------------------------------
(* scs.PWM: the speed control setter *)

is_valid_step(steps, value) == \E i \in 1..Len(steps) : steps[i][1] = value

get_steps(steps) == {steps[i][1] : i \in 1..Len(steps)}

MaxOf(S) == CHOOSE x \in S : \A y \in S : y <= x

(* Python's float arithmetic, as far as the closest-step search needs it:   *)
(* a double keeps 53 significant binary digits, and a result is rounded to  *)
(* the nearest such number, ties to the one with an even last digit.        *)
(* A number is held as its integer part and the sequence of its binary      *)
(* digits behind the point.                                                 *)
SIGNIFICAND == 53

(* the exponent e of n/d: 2^e <= n/d < 2^(e+1), for n >= 1 *)
RECURSIVE exponent(_, _)
exponent(n, d) ==
    IF n < d THEN exponent(2 * n, d) - 1
    ELSE IF 2 * d <= n THEN exponent(n, 2 * d) + 1
    ELSE 0

(* the first k binary digits of r/d behind the point (r < d), and what is *)
(* left of r after them; long division, four digits at a time             *)
chunk(k) == IF k >= 4 THEN 4 ELSE k

(* the first n digits of r/d before the digits that follow them *)
divide(r, d, n, rest) ==
    [bits |-> [i \in 1..n |-> (((r * 2^n) \div d) \div 2^(n - i)) % 2] \o rest.bits,
     rem |-> rest.rem]

RECURSIVE digits(_, _, _)
digits(r, d, k) ==
    IF k = 0 THEN [bits |-> <<>>, rem |-> r]
    ELSE divide(r, d, chunk(k), digits((r * 2^chunk(k)) % d, d, k - chunk(k)))

(* one unit in the last place more; carry is what runs over into the *)
(* integer part                                                       *)
increment(bits) ==
    IF \A i \in 1..Len(bits) : bits[i] = 1
    THEN [bits |-> [i \in 1..Len(bits) |-> 0], carry |-> 1]
    ELSE LET j == MaxOf({i \in 1..Len(bits) : bits[i] = 0})
         IN [bits |-> [i \in 1..Len(bits) |->
                          IF i < j THEN bits[i] ELSE IF i = j THEN 1 ELSE 0],
             carry |-> 0]

(* bits cut to its first k digits, rounded to nearest, ties to even *)
round_bits(bits, k) ==
    LET kept == SubSeq(bits, 1, k)
        half == bits[k + 1] = 1
        more == \E i \in (k + 2)..Len(bits) : bits[i] = 1
    IN IF half /\ (more \/ kept[k] = 1) THEN increment(kept)
       ELSE [bits |-> kept, carry |-> 0]

(* the integer part with what the rounding of the fraction carried over *)
carried(int, r) == [int |-> int + r.carry, frac |-> r.bits]

(* the digits q of a quotient by d, rounded to nearest, ties to even *)
round_quotient(int, d, q) ==
    carried(int,
            IF 2 * q.rem > d \/ (2 * q.rem = d /\ q.bits[Len(q.bits)] = 1)
            THEN increment(q.bits)
            ELSE [bits |-> q.bits, carry |-> 0])

(* the double n / d, for n >= 1 and d >= 1 *)
float_div(n, d) ==
    round_quotient(n \div d, d,
                   digits(n % d, d, SIGNIFICAND - 1 - exponent(n, d)))

pad(bits) == bits \o [i \in 1..(SIGNIFICAND - Len(bits)) |-> 0]

(* the double abs(1 - target / p): a difference of doubles is exact when it *)
(* fits into 53 digits, which it does unless target/p is below one half     *)
rounded(diff) ==
    IF Len(diff) = SIGNIFICAND THEN [int |-> 0, frac |-> diff]
    ELSE carried(0, round_bits(diff, SIGNIFICAND))

distance_to_one(x) ==
    IF x.int >= 1 THEN [int |-> x.int - 1, frac |-> pad(x.frac)]
    ELSE rounded(increment([i \in 1..Len(x.frac) |-> 1 - x.frac[i]]).bits)

deviation(target, p) ==
    IF target = 0 THEN [int |-> 1, frac |-> pad(<<>>)]
    ELSE distance_to_one(float_div(target, p))

(* a < b for two such numbers *)
float_less(a, b) ==
    \/ a.int < b.int
    \/ /\ a.int = b.int
       /\ \E j \in 1..SIGNIFICAND :
             /\ a.frac[j] < b.frac[j]
             /\ \A i \in 1..(j - 1) : a.frac[i] = b.frac[i]

(* deviation_new < deviation_cur for the deviations of target from p and   *)
(* from q. Two deviations that differ as fractions differ by 1/(p*q) at    *)
(* least, far more than the rounding of the doubles, which are then in the *)
(* same order as the fractions; two deviations equal as fractions are      *)
(* compared as the doubles they are computed as.                           *)
deviation_less(target, p, q) ==
    LET new == Abs(p - target) * q
        cur == Abs(q - target) * p
    IN IF new # cur THEN new < cur
       ELSE float_less(deviation(target, p), deviation(target, q))

(* the closest step: the first one whose relative deviation               *)
(* abs(1 - target / p) is smaller than that of every step before it; cur  *)
(* holds the best step so far and the p its deviation is computed from    *)
NO_DEVIATION == NONE

(* one pass of the loop: the step of value p replaces cur if it is closer *)
closer(target, step, p, cur) ==
    IF cur[2] = NO_DEVIATION \/ deviation_less(target, p, cur[2])
    THEN <<step, p>>
    ELSE cur

RECURSIVE nearest(_, _, _, _)
nearest(cands, i, target, cur) ==
    IF i > Len(cands) THEN cur[1]
    ELSE nearest(cands, i + 1, target,
                 closer(target, cands[i][1],
                        IF cands[i][2] = 0 THEN 1 ELSE cands[i][2], cur))

HasRpm(s) == s[3] # NONE

convert_percent2step(steps, percent) ==
    nearest([i \in 1..Len(steps) |-> <<steps[i][1], steps[i][2]>>], 1, percent,
            <<NONE, NO_DEVIATION>>)

(* the conversion without the test for a known RPM, an unknown one *)
(* counting as 0                                                   *)
convert_rpm2step_unknown_as_zero(steps, rpm) ==
    nearest([i \in 1..Len(steps) |->
                <<steps[i][1], IF HasRpm(steps[i]) THEN steps[i][3] ELSE 0>>], 1, rpm,
            <<NONE, NO_DEVIATION>>)

convert_rpm2step(steps, rpm) ==
    LET known == SelectSeq(steps, HasRpm)
    IN nearest([i \in 1..Len(known) |-> <<known[i][1], known[i][3]>>], 1, rpm,
               <<NONE, NO_DEVIATION>>)

(* the duty cycle as a percentage and as the raw value 0..63 of the chip *)
DUTY_RAW_MAX == 63

_convert_dutycycle_percentage2raw(value) == RoundHalfEven(value * DUTY_RAW_MAX, 100)

_convert_percentage2step_raises(value) ==
    IF 0 <= value /\ value <= 100 THEN "None" ELSE "ValueError"

_convert_percentage2step(value) == RoundHalfEven(value * DUTY_RAW_MAX, 100)

_convert_step2percentage_raises(value) ==
    IF 0 <= value /\ value <= DUTY_RAW_MAX THEN "None" ELSE "ValueError"

(* the percentage cut off instead of rounded *)
_convert_step2percentage_truncating(value) == (value * 100) \div DUTY_RAW_MAX

_convert_step2percentage(value) == RoundHalfEven(value * 100, DUTY_RAW_MAX)

(* scs.DAC: the division by an RPM that is None is a TypeError *)
DAC_convert_rpm2step_raises(steps) ==
    IF \E i \in 1..Len(steps) : ~HasRpm(steps[i]) THEN "TypeError" ELSE "None"

DAC_convert_rpm2step(steps, rpm) ==
    nearest([i \in 1..Len(steps) |-> <<steps[i][1], steps[i][3]>>], 1, rpm,
            <<NONE, NO_DEVIATION>>)

StepEntry(steps, step) == steps[CHOOSE i \in 1..Len(steps) : steps[i][1] = step]

convert_step2percent(steps, step) == StepEntry(steps, step)[2]

convert_step2rpm(steps, step) == StepEntry(steps, step)[3]

-----------------------------------------------------------------------------
(* Emc2101_PWM: the device facade *)

DIF_2N3904 == 18          \* ets_2n3904.diode_ideality_factor, 0x12
BCF_2N3904 == 8           \* ets_2n3904.beta_compensation_factor, 0x08

(* what a handler of the facade leaves behind *)
Numbered(res, number) ==
    [regs |-> res.regs, ret |-> res.ret, wlog |-> res.wlog, result |-> number]

pin_six_trans(r, pin) ==
    IF pin = "ALERT" THEN configure_pin_six_as_alert_trans(r)
    ELSE configure_pin_six_as_tacho_trans(r)

(* what building the speed control setter and the PWM factors raises *)
scs_raises(fc) ==
    IF fc.rpm_control_mode = "VOLTAGE" THEN "ValueError"
    ELSE IF fc.rpm_control_mode # "PWM" THEN "ValueError"
    ELSE IF fc.minimum_duty_cycle = NONE \/ fc.maximum_duty_cycle = NONE THEN "ValueError"
    ELSE IF calculate_pwm_factors_raises(fc.pwm_frequency) # "None"
         THEN calculate_pwm_factors_raises(fc.pwm_frequency)
    ELSE IF fc.steps = <<>> THEN "ValueError"     \* max() of no steps
    ELSE "None"

(* Emc2101_PWM.__init__: pin six, minimum RPM, PWM control, external *)
(* sensor; each stage runs on the registers the stage before left    *)
construct(r, pin, fc) ==
    LET t1 == pin_six_trans(r, pin)
        t2 == t1 \o configure_minimum_rpm_trans(fc.minimum_rpm)
        factors == calculate_pwm_factors(fc.pwm_frequency)
        t3 == t2 \o configure_pwm_control_trans(ApplyTrans(r, t2), factors[1], factors[2])
        t4 == t3 \o configure_external_temperature_sensor_trans(
                        ApplyTrans(r, t3), DIF_2N3904, BCF_2N3904)
    IN IF pin \notin {"ALERT", "TACHO"} THEN Raised(r, "NotImplementedError")
       ELSE IF ~minimum_rpm_valid(fc.minimum_rpm) THEN Outcome(r, t1, 0, "ValueError")
       ELSE IF scs_raises(fc) # "None" THEN Outcome(r, t2, 0, scs_raises(fc))
       ELSE Outcome(r, t4, 0, "None")

(* set_fixed_speed: the step for the value, or what is raised instead; *)
(* NONE when no step is close                                          *)
fixed_speed_raises(steps, maxrpm, value, unit) ==
    IF unit = "PERCENT" THEN ~(0 <= value /\ value <= 100)
    ELSE IF unit = "RPM" THEN ~(0 <= value /\ value <= maxrpm)
    ELSE IF unit = "STEP" THEN ~is_valid_step(steps, value)
    ELSE TRUE

fixed_speed_step(steps, value, unit) ==
    IF unit = "PERCENT" THEN convert_percent2step(steps, value)
    ELSE IF unit = "RPM" THEN convert_rpm2step(steps, value)
    ELSE value

(* a step in the caller's unit *)
step_in_unit(steps, step, unit) ==
    IF unit = "PERCENT" THEN convert_step2percent(steps, step)
    ELSE IF unit = "RPM" THEN convert_step2rpm(steps, step)
    ELSE step

NumberStr(n) == IF n = NONE THEN "None" ELSE "int"

set_fixed_speed(r, steps, smax, maxrpm, value, unit) ==
    LET step == fixed_speed_step(steps, value, unit)
        step_cur == r[REG_FAN_SETTING]
    IN IF fixed_speed_raises(steps, maxrpm, value, unit)
       THEN Numbered(Raised(r, "ValueError"), NONE)
       ELSE IF step = NONE
       THEN (IF is_valid_step(steps, step_cur)
             THEN Numbered(Outcome(r, <<Rd(REG_FAN_SETTING)>>, 0,
                                   NumberStr(step_in_unit(steps, step_cur, unit))),
                           step_in_unit(steps, step_cur, unit))
             ELSE Numbered(Outcome(r, <<Rd(REG_FAN_SETTING)>>, 0, "KeyError"), NONE))
       ELSE Numbered(Outcome(r, set_driver_strength_trans(smax, step), 0,
                             NumberStr(step_in_unit(steps, step, unit))),
                     step_in_unit(steps, step, unit))

(* get_fixed_speed: the step register 0x4C holds, in the caller's unit; a *)
(* step the map does not hold has neither percentage nor RPM              *)
get_fixed_speed(r, steps, unit) ==
    LET step == r[REG_FAN_SETTING]
    IN IF unit \in {"PERCENT", "RPM"} /\ ~is_valid_step(steps, step)
       THEN Numbered(Outcome(r, <<Rd(REG_FAN_SETTING)>>, 0, "KeyError"), NONE)
       ELSE Numbered(Outcome(r, <<Rd(REG_FAN_SETTING)>>, 0,
                             NumberStr(step_in_unit(steps, step, unit))),
                     step_in_unit(steps, step, unit))

(* Emc2101_PWM.update_lookup_table: the values become steps, a value no *)
(* step is close to is skipped, the core fills the table                *)
lut_table(steps, values, unit) ==
    LET Converted(e) == fixed_speed_step(steps, e[2], unit) # NONE
        kept == SelectSeq(values, Converted)
    IN [i \in 1..Len(kept) |-> <<kept[i][1], fixed_speed_step(steps, kept[i][2], unit)>>]

pwm_update_lookup_table(r, steps, smax, values, unit) ==
    IF values # <<>> /\ unit \notin {"PERCENT", "RPM", "STEP"}
    THEN Raised(r, "ValueError")
    ELSE update_lookup_table(r, smax, lut_table(steps, values, unit), 0)

-----------------------------------------------------------------------------
(* The facade specification: construction and the validating handlers *)

TestSteps == << <<3, 34, 409>>, <<8, 58, 697>>, <<14, 100, 1194>> >>

FanConfigRec(mode, min_rpm, frequency, min_duty, steps) ==
    FanConfig(mode, min_duty, 100, min_rpm, 2000, frequency, steps)

FanConfigs ==
    { FanConfigRec("PWM", 100, 22500, 20, TestSteps),      \* accepted
      FanConfigRec("PWM", 82, 22500, 20, TestSteps),       \* accepted, lowest RPM
      FanConfigRec("PWM", 81, 22500, 20, TestSteps),       \* minimum RPM too low
      FanConfigRec("VOLTAGE", 100, 0, 20, <<>>),           \* control mode mismatch
      FanConfigRec("None", 100, 0, 20, <<>>),              \* control mode unknown
      FanConfigRec("PWM", 100, 22500, NONE, TestSteps),    \* no duty cycle limits
      FanConfigRec("PWM", 100, 180001, 20, TestSteps),     \* frequency out of range
      FanConfigRec("PWM", 100, 22500, 20, <<>>),           \* no steps
      FanConfigRec("PWM", 100, 22500, 20, << <<0, 0, 0>> >>),    \* a step below the minimum
      FanConfigRec("PWM", 100, 22500, 20,
                   << <<3, 34, NONE>>, <<8, 58, NONE>> >>) }     \* no RPM known

PinSixModes == {"ALERT", "TACHO", "None"}

FixedSpeedInputs ==
    ({-1, 0, 45, 100, 101} \X {"PERCENT"})
    \cup ({-1, 0, 700, 2000, 2001} \X {"RPM"})
    \cup ({3, 5, 14, 64} \X {"STEP"})
    \cup {<<50, "None">>}

FacadeLutInputs ==
    { <<<<>>, "PERCENT">>, <<<<>>, "None">>,
      << << <<16, 34>>, <<40, 100>> >>, "PERCENT">>,
      << << <<16, 409>>, <<40, 1194>> >>, "RPM">>,
      << << <<16, 3>>, <<40, 14>> >>, "STEP">>,
      << << <<16, 3>>, <<40, 64>> >>, "STEP">>,
      << << <<101, 3>> >>, "STEP">>,
      << << <<16, 34>> >>, "None">> }

MinimumRpmInputs == {0, 81, 82, 100}

DEFAULT_FANCFG == 32      \* 0b0010_0000: the table is disabled after power-up

DevInit ==
    /\ regs \in {InitRegs(DEFAULT_FANCFG, s) : s \in SensorStates}
    /\ step_max = STEP_MAX_DEFAULT
    /\ op = "init" /\ arg = <<>> /\ ret = "None" /\ wlog = <<>>
    /\ pre_cfg = regs[REG_FANCFG]
    /\ fault_at = 0
    /\ NoFacade
    /\ cal = CalIdle
    /\ call = NoCall
    /\ callers = NoCallers

DevRan(name, a, res, number) ==
    /\ regs' = res.regs
    /\ op' = name /\ arg' = a /\ ret' = res.ret /\ wlog' = res.wlog
    /\ pre_cfg' = regs[REG_FANCFG]
    /\ UNCHANGED <<cal, call, callers>>
    /\ fault_at' = 0
    /\ result' = number

(* Emc2101_PWM(...): the object exists only if the constructor returns; *)
(* one facade is constructed for the chip                              *)
Construct ==
    /\ ~has_facade
    /\ \E pin \in PinSixModes, fc \in FanConfigs :
        LET res == construct(regs, pin, fc)
        IN /\ DevRan("Emc2101_PWM", <<pin, fc>>, res, NONE)
           /\ IF res.ret = "None"
              THEN /\ has_facade' = TRUE
                   /\ scs_steps' = fc.steps
                   /\ max_rpm' = fc.maximum_rpm
                   /\ pin_six_mode' = pin
                   /\ scs_duty' = <<_convert_dutycycle_percentage2raw(fc.minimum_duty_cycle),
                                     _convert_dutycycle_percentage2raw(fc.maximum_duty_cycle)>>
                   /\ fan_config' = fc
                   /\ step_max' = MaxOf(get_steps(fc.steps))
              ELSE UNCHANGED <<has_facade, scs_steps, max_rpm, pin_six_mode, step_max,
                               scs_duty, fan_config>>

SetFixedSpeed ==
    /\ has_facade
    /\ \E in \in FixedSpeedInputs :
        LET res == set_fixed_speed(regs, scs_steps, step_max, max_rpm, in[1], in[2])
        IN /\ DevRan("set_fixed_speed", in, res, res.result)
           /\ UNCHANGED <<has_facade, scs_steps, max_rpm, pin_six_mode, step_max,
                        scs_duty, fan_config>>

PwmUpdateLookupTable ==
    /\ has_facade
    /\ \E in \in FacadeLutInputs :
        /\ DevRan("update_lookup_table", in,
                  pwm_update_lookup_table(regs, scs_steps, step_max, in[1], in[2]), NONE)
        /\ UNCHANGED <<has_facade, scs_steps, max_rpm, pin_six_mode, step_max,
                        scs_duty, fan_config>>

ConfigureMinimumRpm ==
    \E minimum_rpm \in MinimumRpmInputs :
        /\ DevRan("configure_minimum_rpm", <<minimum_rpm>>,
                  configure_minimum_rpm(regs, minimum_rpm), NONE)
        /\ UNCHANGED <<has_facade, scs_steps, max_rpm, pin_six_mode, step_max,
                        scs_duty, fan_config>>

FanSpeedUnits == {"PERCENT", "RPM", "STEP"}

GetFixedSpeed ==
    /\ has_facade
    /\ \E unit \in FanSpeedUnits :
        LET res == get_fixed_speed(regs, scs_steps, unit)
        IN /\ DevRan("get_fixed_speed", <<unit>>, res, res.result)
           /\ UNCHANGED <<has_facade, scs_steps, max_rpm, pin_six_mode, step_max,
                           scs_duty, fan_config>>

DevNext ==
    \/ Construct
    \/ SetFixedSpeed
    \/ GetFixedSpeed
    \/ PwmUpdateLookupTable
    \/ ConfigureMinimumRpm

SpecDev == DevInit /\ [][DevNext]_vars

-----------------------------------------------------------------------------
(* Properties of argument validation *)

Validating ==
    {"set_fixed_speed", "update_lookup_table", "configure_minimum_rpm", "Emc2101_PWM"}

(* C6: a handler that rejects its argument with a validation error has *)
(* not written to the hardware: this holds for set_fixed_speed,        *)
(* update_lookup_table, configure_minimum_rpm and the construction of  *)
(* the facade.                                                         *)
C6_ValidationBeforeHardware ==
    (op \in Validating /\ ret = "ValueError") => wlog = <<>>

-----------------------------------------------------------------------------
(* Emc2101_core.get_rpm *)

TACH_INVALID == 65535     \* 0xFFFF: the tachometer has no reading
TACH_CLOCK == 5400000

_uses_tacho_mode(r) == HasBit(r[REG_CONFIG], ALT_TACH_BIT)

(* _convert_tach2rpm divides by the count: count 0 raises ZeroDivisionError *)
_convert_tach2rpm_raises(msb, lsb) == msb * 256 + lsb = 0

_convert_tach2rpm(msb, lsb) ==
    LET tach == msb * 256 + lsb
    IN IF tach < TACH_INVALID THEN TACH_CLOCK \div tach ELSE NONE

(* count: what the tach reading registers 0x46 (low), 0x47 (high) hold *)
get_rpm_raises(r, count) ==
    _uses_tacho_mode(r) /\ _convert_tach2rpm_raises(count \div 256, count % 256)

get_rpm(r, count) ==
    IF _uses_tacho_mode(r) THEN _convert_tach2rpm(count \div 256, count % 256) ELSE NONE

-----------------------------------------------------------------------------
(* calibration.calibrate_pwm_fan *)

SAMPLES == 24             \* samples per step before the step is given up
MIN_STEPS == 2            \* a step list no longer than this is not calibrated

(* int(step * 100 / len(steps_list)) *)
dutycycle_of(step, n) == (step * 100) \div n

(* as if a change of more than 5% were demanded *)
probe_responsive_95(rpm1, rpm2) == rpm1 * 100 < 95 * rpm2

(* rpm1 * 100 / rpm2 < 96 *)
probe_responsive(rpm1, rpm2) == rpm1 * 100 < 96 * rpm2

Sum3(w) == w[1] + w[2] + w[3]

(* 0.99 <= rpm_cur / rpm_avg <= 1.01, rpm_avg the mean of the window *)
settled(rpm_cur, w) ==
    99 * Sum3(w) <= 300 * rpm_cur /\ 300 * rpm_cur <= 101 * Sum3(w)

(* round(rpm_avg / 5) * 5 *)
rounded_rpm(w) == RoundHalfEven(Sum3(w), 15) * 5

rpm_max_of(mappings) == MaxOf({mappings[k][3] : k \in 1..Len(mappings)})

(* as if a step were kept whenever the next one is faster at all *)
significant_any_increase(rpm_this, rpm_next, rpm_max) == rpm_this < rpm_next

(* rpm_this + rpm_max * 0.011 <= rpm_next *)
significant(rpm_this, rpm_next, rpm_max) ==
    1000 * rpm_this + 11 * rpm_max <= 1000 * rpm_next

(* as if a step were compared with the one before it and not the next *)
prune_later_of_two(mappings) ==
    {mappings[k][1] : k \in {j \in 2..Len(mappings) :
        ~significant(mappings[j - 1][3], mappings[j][3], rpm_max_of(mappings))}}

(* the steps marked for pruning: all but the last are compared with the next *)
prune(mappings) ==
    {mappings[k][1] : k \in {j \in 1..(Len(mappings) - 1) :
        ~significant(mappings[j][3], mappings[j + 1][3], rpm_max_of(mappings))}}

pruned_steps(mappings) ==
    LET marked == prune(mappings)
        Kept(m) == m[1] \notin marked
    IN SelectSeq(mappings, Kept)

MinOf(S) == CHOOSE x \in S : \A y \in S : x <= y

(* as if the duty cycle limits were the nominal 0% and 100% *)
fan_profile_nominal_duty(frequency, steps) ==
    LET rpms == {steps[k][3] : k \in 1..Len(steps)}
    IN FanConfig("PWM", 0, 100, MinOf(rpms), MaxOf(rpms), frequency, steps)

fan_profile(frequency, steps) ==
    LET duties == {steps[k][2] : k \in 1..Len(steps)}
        rpms == {steps[k][3] : k \in 1..Len(steps)}
    IN FanConfig("PWM", MinOf(duties), MaxOf(duties), MinOf(rpms), MaxOf(rpms),
                 frequency, steps)

(* the function returns or raises: its frame is gone *)
Aborted(c, value) ==
    [c EXCEPT !.pc = "done", !.ret = value, !.step = NONE, !.i = 0,
              !.readings = WINDOW, !.rpm = NONE, !.mappings = <<>>]

(* lines 100-137: compaction and the profile *)
compaction(c) ==
    [c EXCEPT !.pc = "done", !.ret = "FanConfig",
              !.fan_profile = fan_profile(c.pwm_frequency, pruned_steps(c.mappings))]

(* a step's RPM is recorded: the next step is driven, or the curve is done *)
recorded(c, r, smax, rpm_new) ==
    LET n == Len(c.steps_list)
        c2 == [c EXCEPT !.rpm = rpm_new,
                        !.mappings = Append(c.mappings,
                                            <<c.step, dutycycle_of(c.step, n), rpm_new>>)]
    IN IF c.step = c.steps_list[n]
       THEN [cal |-> compaction(c2), regs |-> r]
       ELSE [cal |-> [c2 EXCEPT !.step = c.step + 1, !.i = 0, !.readings = WINDOW],
             regs |-> ApplyTrans(r, set_driver_strength_trans(smax, c.step + 1))]

(* one pass of the sampling loop, lines 74-98 *)
sample(c, r, smax, count) ==
    LET rpm_cur == get_rpm(r, count)
        w == [c.readings EXCEPT ![(c.i % 3) + 1] = rpm_cur]
        c1 == [c EXCEPT !.rpm_cur = rpm_cur,
                        !.unreadable = c.unreadable \/ (_uses_tacho_mode(r) /\ count = TACH_INVALID)]
    IN IF get_rpm_raises(r, count)
       THEN [cal |-> Aborted(c, "ZeroDivisionError"), regs |-> r]
       ELSE IF rpm_cur = NONE THEN [cal |-> Aborted(c1, "None"), regs |-> r]
       ELSE IF settled(rpm_cur, w) THEN recorded(c1, r, smax, rounded_rpm(w))
       ELSE IF c.i + 1 < SAMPLES
       THEN [cal |-> [c1 EXCEPT !.i = c.i + 1, !.readings = w], regs |-> r]
       ELSE IF c.rpm = NONE       \* rpm was never assigned
       THEN [cal |-> Aborted(c1, "UnboundLocalError"), regs |-> r]
       ELSE recorded(c1, r, smax, c.rpm)

-----------------------------------------------------------------------------
(* The calibration specification *)

MaxPwmF == 3              \* the frequencies offered give PWM_F = 1..MaxPwmF

CalFrequencies ==
    {MAX_PWM_FREQUENCY + 1} \cup {MAX_PWM_FREQUENCY \div k : k \in 1..MaxPwmF}

(* tach counts of the probe: none at all, 2000, 1000, 960 and 959 RPM, invalid *)
ProbeCounts == {0, 2700, 5400, 5625, 5626, TACH_INVALID}

(* tach counts while the curve is mapped *)
MappingCounts == {0, 2700, 5400, TACH_INVALID}

(* the device object is set up for a tachometer on pin six; its constructor *)
(* leaves the configuration register one way or the other                  *)
CalInit ==
    /\ regs \in {[InitRegs(DEFAULT_FANCFG, <<27, 0>>) EXCEPT ![REG_CONFIG] = c] :
                    c \in {0, ALT_TACH_BIT}}
    /\ step_max = STEP_MAX_DEFAULT
    /\ op = "init" /\ arg = <<>> /\ ret = "None" /\ wlog = <<>>
    /\ pre_cfg = regs[REG_FANCFG]
    /\ fault_at = 0
    /\ NoFacade
    /\ cal = CalIdle
    /\ call = NoCall
    /\ callers = NoCallers

CalRan(nx) ==
    /\ cal' = nx.cal
    /\ regs' = nx.regs
    /\ UNCHANGED <<op, arg, ret, wlog, pre_cfg, fault_at, devvars, call, callers>>

(* lines 27-47: the step list, PWM control, the first probe step is driven *)
Calibrate ==
    /\ cal.pc = "idle"
    /\ \E frequency \in CalFrequencies :
        IF calculate_pwm_factors_raises(frequency) # "None"
        THEN /\ CalRan([cal |-> Aborted(cal, calculate_pwm_factors_raises(frequency)),
                        regs |-> regs])
             /\ UNCHANGED step_max
        ELSE LET factors == calculate_pwm_factors(frequency)
                 n == factors[2] * 2
                 steps_list == [k \in 1..n |-> k - 1]
                 r1 == ApplyTrans(regs, configure_pwm_control_trans(regs, factors[1], factors[2]))
                 c1 == [cal EXCEPT !.pwm_frequency = frequency, !.steps_list = steps_list]
                 step1 == steps_list[(n \div 2) + 1]
                 step2 == steps_list[n - 1]
             IN /\ step_max' = MaxOf({steps_list[k] : k \in 1..n})
                /\ IF n <= MIN_STEPS
                   THEN CalRan([cal |-> Aborted(c1, "None"), regs |-> r1])
                   ELSE CalRan([cal |-> [c1 EXCEPT !.pc = "probe1", !.step1 = step1,
                                                   !.step2 = step2],
                                regs |-> ApplyTrans(r1, set_driver_strength_trans(
                                                            step_max', step1))])

(* lines 48-52: the mid-step sample, the high probe step is driven *)
Probe1 ==
    /\ cal.pc = "probe1"
    /\ UNCHANGED step_max
    /\ \E count \in ProbeCounts :
        IF get_rpm_raises(regs, count)
        THEN CalRan([cal |-> Aborted(cal, "ZeroDivisionError"), regs |-> regs])
        ELSE CalRan([cal |-> [cal EXCEPT !.pc = "probe2", !.rpm1 = get_rpm(regs, count),
                                !.unreadable = _uses_tacho_mode(regs) /\ count = TACH_INVALID],
                     regs |-> ApplyTrans(regs, set_driver_strength_trans(step_max, cal.step2))])

(* lines 53-72: the high-step sample and the verdict; a responsive fan has *)
(* its first step driven                                                   *)
Probe2 ==
    /\ cal.pc = "probe2"
    /\ UNCHANGED step_max
    /\ \E count \in ProbeCounts :
        LET rpm2 == get_rpm(regs, count)
            c1 == [cal EXCEPT !.rpm2 = rpm2,
                              !.unreadable = cal.unreadable
                                  \/ (_uses_tacho_mode(regs) /\ count = TACH_INVALID)]
        IN IF get_rpm_raises(regs, count)
           THEN CalRan([cal |-> Aborted(cal, "ZeroDivisionError"), regs |-> regs])
           ELSE IF cal.rpm1 = NONE \/ rpm2 = NONE
           THEN CalRan([cal |-> Aborted(c1, "None"), regs |-> regs])
           ELSE IF probe_responsive(cal.rpm1, rpm2)
           THEN CalRan([cal |-> [c1 EXCEPT !.pc = "mapping", !.step = cal.steps_list[1],
                                           !.i = 0, !.readings = WINDOW],
                        regs |-> ApplyTrans(regs, set_driver_strength_trans(
                                                      step_max, cal.steps_list[1]))])
           ELSE CalRan([cal |-> Aborted(c1, "None"), regs |-> regs])

(* lines 73-137: one sample of the step being mapped *)
Sample ==
    /\ cal.pc = "mapping"
    /\ UNCHANGED step_max
    /\ \E count \in MappingCounts : CalRan(sample(cal, regs, step_max, count))

CalNext ==
    \/ Calibrate
    \/ Probe1
    \/ Probe2
    \/ Sample

SpecCal == CalInit /\ [][CalNext]_vars

-----------------------------------------------------------------------------
(* Properties of calibration *)

CalDone == cal.pc = "done"

(* C7: whenever a tachometer sample of the probe or of the curve mapping *)
(* read the count 0xFFFF, calibration ends by returning "no profile",    *)
(* a normal return value and not an exception.                           *)
C7_UnreadableSampleNoProfile ==
    (CalDone /\ cal.unreadable) => cal.ret = "None"

(* the middle step and the second-highest step of the step list coincide *)
CoincidingSteps ==
    LET n == Len(cal.steps_list)
    IN n >= 2 /\ cal.steps_list[(n \div 2) + 1] = cal.steps_list[n - 1]

(* C8: for a step list whose middle step and second-highest step are the *)
(* same step, calibration never enters curve mapping and returns "no     *)
(* profile", whatever the tachometer reads.                              *)
C8_CoincidingStepsNoMapping ==
    CoincidingSteps => (cal.pc # "mapping" /\ (CalDone => cal.ret = "None"))

(* C9: with enough steps and both probe samples readable, the probe ends  *)
(* calibration with "no profile" if and only if rpm_mid * 100 / rpm_high  *)
(* >= 96, and it goes on to curve mapping exactly when the mid-step RPM   *)
(* is below 96% of the high-step RPM.                                     *)
C9_ProbeThreshold ==
    [][(cal.pc = "probe2" /\ cal'.rpm1 # NONE /\ cal'.rpm2 # NONE)
        => /\ (cal'.pc = "done" /\ cal'.ret = "None")
                <=> (cal'.rpm1 * 100 >= 96 * cal'.rpm2)
           /\ (cal'.pc = "mapping") <=> (cal'.rpm1 * 100 < 96 * cal'.rpm2)]_vars

(* the probe has just let a fan pass whose mid-step RPM is 95.9% of the *)
(* high-step RPM, with more than two steps                              *)
C9_Witness ==
    /\ cal.pc = "mapping" /\ cal.mappings = <<>> /\ cal.i = 0
    /\ cal.rpm1 = 959 /\ cal.rpm2 = 1000
    /\ Len(cal.steps_list) > MIN_STEPS

-----------------------------------------------------------------------------
(* The compaction specification: lines 100-137 applied to recorded steps *)

MaxRecorded == 4          \* longest list of recorded steps

RecordedRpms == {100, 101, 200, 400}

Recorded(rpms) ==
    [k \in 1..Len(rpms) |-> <<k - 1, dutycycle_of(k - 1, Len(rpms)), rpms[k]>>]

RecordedInputs ==
    UNION {{Recorded(rpms) : rpms \in [1..len -> RecordedRpms]} : len \in 1..MaxRecorded}

CompactInit ==
    /\ regs = InitRegs(DEFAULT_FANCFG, <<27, 0>>)
    /\ step_max = STEP_MAX_DEFAULT
    /\ op = "init" /\ arg = <<>> /\ ret = "None" /\ wlog = <<>>
    /\ pre_cfg = regs[REG_FANCFG]
    /\ fault_at = 0
    /\ NoFacade
    /\ cal \in {[CalIdle EXCEPT !.pc = "compaction", !.pwm_frequency = 22500,
                                !.mappings = m] : m \in RecordedInputs}
    /\ call = NoCall
    /\ callers = NoCallers

Compaction ==
    /\ cal.pc = "compaction"
    /\ cal' = compaction(cal)
    /\ UNCHANGED <<lutvars, devvars, call, callers>>

SpecCompact == CompactInit /\ [][Compaction]_vars

RpmsOf(steps) == [k \in 1..Len(steps) |-> steps[k][3]]

CompactedExample == CalDone /\ RpmsOf(cal.mappings) = <<100, 101, 200, 400>>

(* C10 as stated: compaction of recorded steps with RPMs 100, 101, 200, *)
(* 400 prunes the entry with RPM 101 and keeps 100, 200 and 400.        *)
C10_Prunes101 ==
    CompactedExample => RpmsOf(cal.fan_profile.steps) = <<100, 200, 400>>

(* C10, amended: compaction of recorded steps with RPMs 100, 101, 200,   *)
(* 400 prunes the entry with RPM 100, which is within 4.4 of its         *)
(* successor, and keeps the entries with RPM 101, 200 and 400.           *)
C10_Prunes100 ==
    CompactedExample => RpmsOf(cal.fan_profile.steps) = <<101, 200, 400>>

C10_Witness ==
    CompactedExample /\ Len(cal.fan_profile.steps) = 3

(* C11: every profile calibration returns is monotonic: over the surviving *)
(* steps in ascending step order the RPM strictly increases and two        *)
(* consecutive surviving steps differ by at least 0.011 * rpm_max,         *)
(* whatever RPMs were measured.                                            *)
C11_ProfileMonotonic ==
    (CalDone /\ cal.ret = "FanConfig") =>
        \A k \in 1..(Len(cal.fan_profile.steps) - 1) :
            /\ cal.fan_profile.steps[k][1] < cal.fan_profile.steps[k + 1][1]
            /\ cal.fan_profile.steps[k][3] < cal.fan_profile.steps[k + 1][3]
            /\ 1000 * cal.fan_profile.steps[k][3] + 11 * rpm_max_of(cal.mappings)
                   <= 1000 * cal.fan_profile.steps[k + 1][3]

-----------------------------------------------------------------------------
(* conversions: temperatures, in hundredths of a degree *)

(* convert_temperature2bytes: <<msb, lsb>> *)
convert_temperature2bytes(value) ==
    LET msb == value \div 100                 \* int(value)
        decimal == value % 100                \* round((value % 1) * 100)
        half == decimal >= 38
        d1 == IF half THEN decimal - 50 ELSE decimal
        quarter == d1 >= 20
        d2 == IF quarter THEN d1 - 25 ELSE d1
        rest == d2 >= 8
    IN IF decimal >= 95 THEN <<msb + 1, 0>>
       ELSE <<msb, (IF half THEN 128 ELSE 0) + (IF quarter THEN 64 ELSE 0)
                   + (IF rest THEN 32 ELSE 0)>>

convert_bytes2temperature(msb, lsb) ==
    100 * msb + (IF HasBit(lsb, 128) THEN 50 ELSE 0)
              + (IF HasBit(lsb, 64) THEN 25 ELSE 0)
              + (IF HasBit(lsb, 32) THEN 15 ELSE 0)

(* config_register: the flags of register 0x03 *)
ConfigRegister(mask, standby, fan_standby, dac, dis_to, alt_tach, trcit_ovrd, queue) ==
    [mask |-> mask, standby |-> standby, fan_standby |-> fan_standby, dac |-> dac,
     dis_to |-> dis_to, alt_tach |-> alt_tach, trcit_ovrd |-> trcit_ovrd,
     queue |-> queue]

Bit(flag, w) == IF flag THEN w ELSE 0

(* the encoding with the queue flag left out *)
as_int_without_queue(self) ==
    Bit(self.mask, 128) + Bit(self.standby, 64) + Bit(self.fan_standby, 32)
    + Bit(self.dac, 16) + Bit(self.dis_to, 8) + Bit(self.alt_tach, 4)
    + Bit(self.trcit_ovrd, 2)

(* config |= w for one flag after the other, starting from 0x00 *)
as_int(self) ==
    LET c1 == IF self.mask THEN OrBit(0, 128) ELSE 0
        c2 == IF self.standby THEN OrBit(c1, 64) ELSE c1
        c3 == IF self.fan_standby THEN OrBit(c2, 32) ELSE c2
        c4 == IF self.dac THEN OrBit(c3, 16) ELSE c3
        c5 == IF self.dis_to THEN OrBit(c4, 8) ELSE c4
        c6 == IF self.alt_tach THEN OrBit(c5, 4) ELSE c5
        c7 == IF self.trcit_ovrd THEN OrBit(c6, 2) ELSE c6
    IN IF self.queue THEN OrBit(c7, 1) ELSE c7

(* a flag is set if its bit is, and keeps its default False otherwise *)
parse_config_register(value) ==
    ConfigRegister(HasBit(value, 128), HasBit(value, 64), HasBit(value, 32),
                   HasBit(value, 16), HasBit(value, 8), HasBit(value, 4),
                   HasBit(value, 2), HasBit(value, 1))

-----------------------------------------------------------------------------
(* The specification of the pure functions: a call is drawn, then it runs *)

Called(fn, a) == [fn |-> fn, arg |-> a, pc |-> "called", out |-> <<>>, raised |-> "None"]

(* every temperature of [0, 100) at hundredths of a degree *)
TemperatureCalls ==
    {Called("convert_temperature2bytes", <<h>>) : h \in 0..(TEMP_MAX * 100 - 1)}

(* every 16-bit tach count, as the two bytes of the tach reading registers *)
TachCalls ==
    {Called("_convert_tach2rpm", <<tach \div 256, tach % 256>>) : tach \in 0..TACH_INVALID}

MaxLowFrequency == 300    \* the low frequencies offered run up to this

(* frequencies below, at and above both ends of the interval, and those of *)
(* the fan configurations in use                                           *)
Frequencies ==
    (-2..MaxLowFrequency)
    \cup {1000, 5500, 6000, 22000, 22500, 45000, 60000, 90000}
    \cup ((MAX_PWM_FREQUENCY - 2)..(MAX_PWM_FREQUENCY + 2))

PwmFactorCalls == {Called("calculate_pwm_factors", <<f>>) : f \in Frequencies}

MaxSteps == 3    \* the step maps offered have up to this many entries

StepPercents == {0, 5, 20, 34, 40}

(* the sequences of 1..n elements of S *)
RECURSIVE Arrangements(_, _)
Arrangements(S, n) ==
    IF n = 0 THEN {}
    ELSE {<<e>> : e \in S} \cup {Append(a, e) : a \in Arrangements(S, n - 1), e \in S}

Distinct(seq) == \A i, j \in 1..Len(seq) : i # j => seq[i] # seq[j]

(* step maps in iteration order: steps 3, 4, ... with distinct duty cycles *)
(* in any order and no RPM                                                 *)
PercentMaps ==
    {[i \in 1..Len(a) |-> <<i + 2, a[i], NONE>>] :
        a \in {b \in Arrangements(StepPercents, MaxSteps) : Distinct(b)}}

(* a call of a method of the speed control setter whose step map is steps *)
CalledOn(steps, fn, a) ==
    [fn |-> fn, arg |-> a, pc |-> "called", out |-> <<>>, raised |-> "None",
     steps |-> steps]

Percent2StepCalls ==
    {CalledOn(m, "convert_percent2step", <<percent>>) : m \in PercentMaps, percent \in 0..100}

(* every raw duty cycle, and the values next to both ends of the range *)
Step2PercentageCalls ==
    {Called("_convert_step2percentage", <<raw>>) : raw \in -1..(DUTY_RAW_MAX + 1)}

(* every byte decoded, and every combination of the eight flags encoded *)
ParseCalls == {Called("parse_config_register", <<b>>) : b \in 0..255}

AsIntCalls ==
    {[fn |-> "as_int", arg |-> <<>>, pc |-> "called", out |-> <<>>, raised |-> "None",
      self |-> ConfigRegister(f[1], f[2], f[3], f[4], f[5], f[6], f[7], f[8])] :
        f \in [1..8 -> BOOLEAN]}

PureCalls == TemperatureCalls \cup TachCalls \cup PwmFactorCalls \cup Step2PercentageCalls \cup ParseCalls

MaxRpmSteps == 2    \* the step maps with RPMs offered have up to this many entries

StepRpms == {NONE, 0, 409, 479}

(* step maps in iteration order: steps 3, 4, ... whose RPMs are known or *)
(* not, the map without entries included                                 *)
RpmMaps ==
    {<<>>} \cup {[i \in 1..Len(a) |-> <<i + 2, 10 * i, a[i]>>] :
                    a \in Arrangements(StepRpms, MaxRpmSteps)}

RpmTargets == (0..2) \cup (400..500) \cup {1000, 2000}

Rpm2StepCalls ==
    {CalledOn(m, "convert_rpm2step", <<rpm>>) : m \in RpmMaps, rpm \in RpmTargets}

(* the step map every DAC setter is constructed with *)
DAC_STEPS ==
    << <<3, 34, 409>>, <<4, 40, 479>>, <<5, 44, 526>>, <<6, 49, 591>>,
       <<7, 52, 629>>, <<8, 58, 697>>, <<9, 65, 785>>, <<10, 72, 868>>,
       <<11, 79, 950>>, <<12, 87, 1040>>, <<13, 93, 1113>>, <<14, 100, 1194>> >>

DacRpm2StepCalls ==
    {CalledOn(DAC_STEPS, "DAC.convert_rpm2step", <<rpm>>) : rpm \in RpmTargets}

(* the calls of methods of a speed control setter *)
SetterCalls == Percent2StepCalls \cup Rpm2StepCalls \cup DacRpm2StepCalls

PureInit ==
    /\ regs = InitRegs(DEFAULT_FANCFG, <<27, 0>>)
    /\ step_max = STEP_MAX_DEFAULT
    /\ op = "init" /\ arg = <<>> /\ ret = "None" /\ wlog = <<>>
    /\ pre_cfg = regs[REG_FANCFG]
    /\ fault_at = 0
    /\ NoFacade
    /\ cal = CalIdle
    /\ (call \in PureCalls \/ call \in SetterCalls \/ call \in AsIntCalls)
    /\ callers = NoCallers

Returns(fn, value) ==
    /\ call.fn = fn /\ call.pc = "called"
    /\ call' = [call EXCEPT !.pc = "returned", !.out = value]
    /\ UNCHANGED <<lutvars, devvars, cal, callers>>

Raises(fn, what) ==
    /\ call.fn = fn /\ call.pc = "called"
    /\ call' = [call EXCEPT !.pc = "returned", !.raised = what]
    /\ UNCHANGED <<lutvars, devvars, cal, callers>>

ConvertTemperature2Bytes ==
    /\ call.fn = "convert_temperature2bytes"
    /\ Returns("convert_temperature2bytes", convert_temperature2bytes(call.arg[1]))

(* the bytes just encoded are decoded again *)
ConvertBytes2Temperature ==
    /\ call.fn = "convert_temperature2bytes" /\ call.pc = "returned"
    /\ call' = [fn |-> "convert_bytes2temperature", arg |-> call.out, pc |-> "returned",
                out |-> <<convert_bytes2temperature(call.out[1], call.out[2])>>,
                raised |-> "None", of |-> call.arg[1]]
    /\ UNCHANGED <<lutvars, devvars, cal, callers>>

ConvertTach2Rpm ==
    /\ call.fn = "_convert_tach2rpm"
    /\ IF _convert_tach2rpm_raises(call.arg[1], call.arg[2])
       THEN Raises("_convert_tach2rpm", "ZeroDivisionError")
       ELSE Returns("_convert_tach2rpm", <<_convert_tach2rpm(call.arg[1], call.arg[2])>>)

CalculatePwmFactors ==
    /\ call.fn = "calculate_pwm_factors"
    /\ IF calculate_pwm_factors_raises(call.arg[1]) # "None"
       THEN Raises("calculate_pwm_factors", calculate_pwm_factors_raises(call.arg[1]))
       ELSE Returns("calculate_pwm_factors", calculate_pwm_factors(call.arg[1]))

ConvertPercent2Step ==
    /\ call.fn = "convert_percent2step"
    /\ Returns("convert_percent2step", <<convert_percent2step(call.steps, call.arg[1])>>)

ConvertRpm2Step ==
    /\ call.fn = "convert_rpm2step"
    /\ Returns("convert_rpm2step", <<convert_rpm2step(call.steps, call.arg[1])>>)

ConvertRpm2StepDac ==
    /\ call.fn = "DAC.convert_rpm2step"
    /\ IF DAC_convert_rpm2step_raises(call.steps) # "None"
       THEN Raises("DAC.convert_rpm2step", DAC_convert_rpm2step_raises(call.steps))
       ELSE Returns("DAC.convert_rpm2step", <<DAC_convert_rpm2step(call.steps, call.arg[1])>>)

ConvertStep2Percentage ==
    /\ call.fn = "_convert_step2percentage"
    /\ IF _convert_step2percentage_raises(call.arg[1]) # "None"
       THEN Raises("_convert_step2percentage", _convert_step2percentage_raises(call.arg[1]))
       ELSE Returns("_convert_step2percentage", <<_convert_step2percentage(call.arg[1])>>)

(* the percentage just computed is converted back, by the conversion of the *)
(* PWM setter and by that of the DAC setter                                 *)
ConvertPercentage2Raw ==
    /\ call.fn = "_convert_step2percentage" /\ call.pc = "returned"
    /\ call.raised = "None"
    /\ _convert_percentage2step_raises(call.out[1]) = "None"
    /\ call' = [fn |-> "_convert_dutycycle_percentage2raw", arg |-> call.out,
                pc |-> "returned",
                out |-> <<_convert_dutycycle_percentage2raw(call.out[1]),
                          _convert_percentage2step(call.out[1])>>,
                raised |-> "None", of |-> call.arg[1]]
    /\ UNCHANGED <<lutvars, devvars, cal, callers>>

ParseConfigRegister ==
    /\ call.fn = "parse_config_register"
    /\ Returns("parse_config_register", <<parse_config_register(call.arg[1])>>)

(* the flags just decoded are encoded again *)
AsIntOfParsed ==
    /\ call.fn = "parse_config_register" /\ call.pc = "returned"
    /\ call' = [fn |-> "as_int", arg |-> <<>>, pc |-> "returned",
                out |-> <<as_int(call.out[1])>>, raised |-> "None",
                self |-> call.out[1], of |-> call.arg[1]]
    /\ UNCHANGED <<lutvars, devvars, cal, callers>>

AsInt ==
    /\ call.fn = "as_int"
    /\ Returns("as_int", <<as_int(call.self)>>)

(* the byte just encoded is decoded again *)
ParseOfAsInt ==
    /\ call.fn = "as_int" /\ call.pc = "returned" /\ call.arg = <<>>
    /\ "of" \notin DOMAIN call
    /\ call' = [fn |-> "parse_config_register", arg |-> call.out, pc |-> "returned",
                out |-> <<parse_config_register(call.out[1])>>, raised |-> "None",
                of |-> call.self]
    /\ UNCHANGED <<lutvars, devvars, cal, callers>>

PureNext ==
    \/ ConvertTemperature2Bytes
    \/ ConvertBytes2Temperature
    \/ ConvertTach2Rpm
    \/ CalculatePwmFactors
    \/ ConvertPercent2Step
    \/ ConvertRpm2Step
    \/ ConvertRpm2StepDac
    \/ ConvertStep2Percentage
    \/ ConvertPercentage2Raw
    \/ ParseConfigRegister
    \/ AsIntOfParsed
    \/ AsInt
    \/ ParseOfAsInt

SpecPure == PureInit /\ [][PureNext]_vars

-----------------------------------------------------------------------------
(* Properties of the conversions *)

Fractions == {0, 15, 25, 40, 50, 65, 75, 90}

Dist(a, b) == Abs(a - b)

(* a temperature was encoded and the bytes decoded again *)
RoundTripped == call.fn = "convert_bytes2temperature" /\ call.pc = "returned"

(* C12: for every temperature x of [0, 100) at hundredths of a degree,    *)
(* decoding the bytes of the encoded x gives x rounded to the nearest     *)
(* value whose fraction is one of 0.00, 0.15, 0.25, 0.40, 0.50, 0.65,     *)
(* 0.75, 0.90, a fraction of 0.95 or more being carried into the integer. *)
C12_TemperatureRoundTrip ==
    RoundTripped =>
        LET x == call.of
            whole == 100 * (x \div 100)
            y == call.out[1]
        IN IF x % 100 >= 95 THEN y = whole + 100
           ELSE /\ (y - whole) \in Fractions
                /\ \A f \in Fractions : Dist(y, x) <= Dist(whole + f, x)

(* C13: for every 16-bit tach count, 0 included, the conversion to RPM  *)
(* does not fail; it returns "unknown" if and only if the count is      *)
(* 0xFFFF and the integer quotient 5,400,000 // count otherwise.        *)
C13_TachToRpm ==
    (call.fn = "_convert_tach2rpm" /\ call.pc = "returned") =>
        LET count == call.arg[1] * 256 + call.arg[2]
        IN /\ call.raised = "None"
           /\ (call.out[1] = NONE) <=> (count = TACH_INVALID)
           /\ count # TACH_INVALID => call.out[1] = TACH_CLOCK \div count


(* C14: calculate_pwm_factors fails with a range error for every frequency *)
(* <= 0 and every frequency > 180000; for every frequency in between it   *)
(* returns a pair of factors and fails in no other way.                    *)
C14_PwmFactorsRange ==
    (call.fn = "calculate_pwm_factors" /\ call.pc = "returned") =>
        IF call.arg[1] <= 0 \/ call.arg[1] > MAX_PWM_FREQUENCY
        THEN call.raised = "ValueError"
        ELSE call.raised = "None" /\ Len(call.out) = 2


(* the relative deviation |1 - target/p| of entry i of a step map as the *)
(* fraction it is, p = 1 standing in for 0; field 2 is the duty cycle,   *)
(* field 3 the RPM                                                       *)
ExactDeviation(steps, i, field, target) ==
    LET p == IF steps[i][field] = 0 THEN 1 ELSE steps[i][field]
    IN [num |-> Abs(p - target), den |-> p]

FractionLess(a, b) == a.num * b.den < b.num * a.den

IndexOfStep(steps, step) == CHOOSE i \in 1..Len(steps) : steps[i][1] = step

(* entry j is a closest entry of those in among, and the first such *)
FirstClosest(steps, among, j, field, target) ==
    /\ j \in among
    /\ \A i \in among :
          ~FractionLess(ExactDeviation(steps, i, field, target),
                        ExactDeviation(steps, j, field, target))
    /\ \A i \in among :
          i < j => FractionLess(ExactDeviation(steps, j, field, target),
                                ExactDeviation(steps, i, field, target))

Percent2StepReturned == call.fn = "convert_percent2step" /\ call.pc = "returned"

(* C15: for a non-empty step map, convert_percent2step returns a step whose *)
(* deviation |1 - target/p| (p = 1 for a duty cycle of 0) is minimal over   *)
(* all entries, and among entries of equal minimal deviation the first in   *)
(* iteration order; with steps {3: (34, .), 4: (40, .)} a target of 36      *)
(* gives step 3 and a target of 37 gives step 4.                            *)
C15_PercentToStepNearest ==
    (Percent2StepReturned /\ Len(call.steps) > 0) =>
        LET steps == call.steps
            percent == call.arg[1]
        IN /\ is_valid_step(steps, call.out[1])
           /\ FirstClosest(steps, 1..Len(steps), IndexOfStep(steps, call.out[1]), 2, percent)
           /\ (steps = << <<3, 34, NONE>>, <<4, 40, NONE>> >> /\ percent = 36)
                 => call.out[1] = 3
           /\ (steps = << <<3, 34, NONE>>, <<4, 40, NONE>> >> /\ percent = 37)
                 => call.out[1] = 4


Rpm2StepReturned ==
    call.fn \in {"convert_rpm2step", "DAC.convert_rpm2step"} /\ call.pc = "returned"

KnownRpm(steps) == {i \in 1..Len(steps) : HasRpm(steps[i])}

DutyRoundTripped == call.fn = "_convert_dutycycle_percentage2raw" /\ call.pc = "returned"

(* C17: for every raw duty cycle r of 0..63, the percentage round(r*100/63) *)
(* converted back by round(pct*63/100) is r again.                          *)
C17_DutyRoundTrip ==
    /\ DutyRoundTripped => call.out = <<call.of, call.of>>
    /\ (call.fn = "_convert_step2percentage" /\ call.pc = "returned"
            /\ call.arg[1] \in 0..DUTY_RAW_MAX)
          => (call.raised = "None" /\ ENABLED ConvertPercentage2Raw)

(* raw value 31 went to 49 % and came back, as 32 does by way of 51 % *)
C17_Witness ==
    DutyRoundTripped /\ call.of = 31 /\ call.arg = <<49>> /\ call.out[1] = 31


(* the bit each flag of the configuration register stands for *)
FlagBits ==
    [mask |-> 128, standby |-> 64, fan_standby |-> 32, dac |-> 16, dis_to |-> 8,
     alt_tach |-> 4, trcit_ovrd |-> 2, queue |-> 1]

RECURSIVE SumOver(_, _)
SumOver(S, f) ==
    IF S = {} THEN 0
    ELSE LET e == CHOOSE e \in S : TRUE IN f[e] + SumOver(S \ {e}, f)

AsIntReturned == call.fn = "as_int" /\ call.pc = "returned"

ParseReturned == call.fn = "parse_config_register" /\ call.pc = "returned"

(* C18: encoding and decoding of the configuration register are inverse to *)
(* each other: for every byte b, parse_config_register(b).as_int() = b,    *)
(* and for every combination c of the eight flags,                         *)
(* parse_config_register(c.as_int()) = c; each flag stands for exactly one *)
(* bit: mask 0x80, standby 0x40, fan_standby 0x20, dac 0x10, dis_to 0x08,  *)
(* alt_tach 0x04, trcit_ovrd 0x02, queue 0x01.                             *)
C18_ConfigRegisterRoundTrip ==
    /\ (AsIntReturned /\ "of" \in DOMAIN call) => call.out[1] = call.of
    /\ (ParseReturned /\ "of" \in DOMAIN call) => call.out[1] = call.of
    /\ AsIntReturned =>
          call.out[1] = SumOver({f \in DOMAIN FlagBits : call.self[f]}, FlagBits)
    /\ ParseReturned =>
          \A f \in DOMAIN FlagBits : call.out[1][f] <=> HasBit(call.arg[1], FlagBits[f])

(* 0xA5 was decoded to mask, fan_standby, alt_tach and queue and encoded *)
(* again                                                                 *)
C18_Witness ==
    /\ AsIntReturned /\ "of" \in DOMAIN call /\ call.of = 165
    /\ call.self = ConfigRegister(TRUE, FALSE, TRUE, FALSE, FALSE, TRUE, FALSE, TRUE)
    /\ call.out = <<165>>


-----------------------------------------------------------------------------
(* Properties of the fixed speed *)

(* set_fixed_speed has returned a value *)
FixedSpeedReturned == op = "set_fixed_speed" /\ ret = "int"

WithinDutyLimits(percent) ==
    /\ fan_config.minimum_duty_cycle <= percent
    /\ percent <= fan_config.maximum_duty_cycle

(* C19: set_fixed_speed clamps to the fan configuration: the step it has *)
(* written to register 0x4C and the value it returns never stand for a   *)
(* duty cycle below the configuration's minimum_duty_cycle or above its  *)
(* maximum_duty_cycle.                                                   *)
C19_FixedSpeedClamped ==
    FixedSpeedReturned =>
        /\ wlog # <<>> =>
              WithinDutyLimits(convert_step2percent(scs_steps, regs[REG_FAN_SETTING]))
        /\ arg[2] = "PERCENT" => WithinDutyLimits(result)
        /\ arg[2] = "STEP" => WithinDutyLimits(convert_step2percent(scs_steps, result))


(* get_fixed_speed follows set_fixed_speed and asks for the unit that was set *)
ReadBack ==
    /\ FixedSpeedReturned
    /\ op' = "get_fixed_speed" /\ arg' = <<arg[2]>>

(* C20: whenever set_fixed_speed(value, unit) returns a value r that is not *)
(* None, without raising, register 0x4C holds a step that is a key of the   *)
(* step map, and a get_fixed_speed(unit) that follows immediately returns   *)
(* r; this holds for the units STEP, PERCENT and RPM.                       *)
C20_FixedSpeedReadBack ==
    /\ [](FixedSpeedReturned => is_valid_step(scs_steps, regs[REG_FAN_SETTING]))
    /\ [][ReadBack => (ret' = "int" /\ result' = result)]_vars

(* 45 % was set: step 8 is written and its 58 % returned *)
C20_Witness ==
    /\ FixedSpeedReturned /\ arg = <<45, "PERCENT">>
    /\ regs[REG_FAN_SETTING] = 8 /\ result = 58
    /\ ENABLED GetFixedSpeed

-----------------------------------------------------------------------------
(* The core specification: the handlers of Emc2101_core on one device *)

(* set_driver_strength: the step is written if it is in range, and the *)
(* register is read back and compared with it                          *)
set_driver_strength(r, smax, step) ==
    Outcome(r, set_driver_strength_trans(smax, step), 0,
            BoolStr(step = ApplyTrans(r, set_driver_strength_trans(smax, step))[REG_FAN_SETTING]))

(* register 0x4A as the device object may find it: bit 5 and the others *)
CoreCfgs == {0, 3, 32, 35, 223, 255}

DriverSteps == {-1, 0, 14, 20, 63, 64}

(* pwm_d, pwm_f and step_max offered to configure_pwm_control *)
PwmControlInputs == { <<1, 8, 15>>, <<1, 31, 61>>, <<1, 31, 63>> }

CoreInit ==
    /\ regs \in {InitRegs(c, s) : c \in CoreCfgs, s \in SensorStates}
    /\ step_max = STEP_MAX_DEFAULT
    /\ op = "init" /\ arg = <<>> /\ ret = "None" /\ wlog = <<>>
    /\ pre_cfg = regs[REG_FANCFG]
    /\ fault_at = 0
    /\ NoFacade
    /\ cal = CalIdle
    /\ call = NoCall
    /\ callers = NoCallers

SetDriverStrength ==
    \E step \in DriverSteps :
        /\ DevRan("set_driver_strength", <<step>>,
                  set_driver_strength(regs, step_max, step), NONE)
        /\ UNCHANGED <<has_facade, scs_steps, max_rpm, pin_six_mode, step_max,
                        scs_duty, fan_config>>

ConfigurePwmControl ==
    \E in \in PwmControlInputs :
        /\ DevRan("configure_pwm_control", in,
                  configure_pwm_control(regs, in[1], in[2], 0), NONE)
        /\ step_max' = in[3]
        /\ UNCHANGED <<has_facade, scs_steps, max_rpm, pin_six_mode,
                        scs_duty, fan_config>>

CoreNext ==
    \/ SetDriverStrength
    \/ ConfigurePwmControl
    \/ ConfigureMinimumRpm
    \/ IsLookupTableEnabled
    \/ EnableLookupTable
    \/ DisableLookupTable
    \/ ResetLookupTable

SpecCore == CoreInit /\ [][CoreNext]_vars

-----------------------------------------------------------------------------
(* Properties of the core handlers *)

StepInRange(step) == STEP_MIN <= step /\ step <= step_max

(* C21: set_driver_strength(step) with step outside [step_min, step_max] *)
(* returns False and leaves register 0x4C unchanged, for every prior     *)
(* content of that register and every configured step_max.               *)
C21_OutOfRangeStepRejected ==
    [][(op' = "set_driver_strength" /\ ~StepInRange(arg'[1]))
        => (ret' = "False" /\ regs'[REG_FAN_SETTING] = regs[REG_FAN_SETTING])]_vars

(* bit 5 (0x20) of register 0x4A is clear *)
BitFiveClear == (regs[REG_FANCFG] \div 32) % 2 = 0

Completed(name) == op = name /\ ret # "IOError"

(* the handlers that call enable_lookup_table or disable_lookup_table *)
LutSwitches == {"enable_lookup_table", "disable_lookup_table", "reset_lookup_table"}

(* C22: is_lookup_table_enabled depends on a single bit: it returns true   *)
(* exactly when bit 5 (0x20) of register 0x4A is clear, whatever the other *)
(* bits of that register are, and it agrees with the most recent           *)
(* enable_lookup_table / disable_lookup_table call: a completed enable     *)
(* leaves the bit clear, a completed disable leaves it set, and the bit    *)
(* changes in no step but a call of one of the two.                        *)
C22_EnabledIsBitFive ==
    /\ [](Completed("is_lookup_table_enabled") => (ret = "True" <=> BitFiveClear))
    /\ [](Completed("enable_lookup_table") => BitFiveClear)
    /\ [](Completed("disable_lookup_table") => ~BitFiveClear)
    /\ [][BitFiveClear' # BitFiveClear => op' \in LutSwitches]_vars

(* the table is reported enabled with every bit of 0x4A set but bit 5 *)
C22_Witness ==
    /\ Completed("is_lookup_table_enabled") /\ ret = "True"
    /\ regs[REG_FANCFG] = 223

-----------------------------------------------------------------------------
(* Properties of resetting and rewriting the lookup table *)

SlotWrites == [i \in 1..LUT_BYTES |-> REG_LUT_BASE + i - 1]

(* C23: after reset_lookup_table the lookup table is disabled and all 16 *)
(* bytes 0x50..0x5F are zero, whatever the prior enabled state and table *)
(* contents; the call does not re-enable the table: its one write to     *)
(* 0x4A comes before the writes to the slots.                            *)
C23_ResetClearsAndDisables ==
    Completed("reset_lookup_table") =>
        /\ HasBit(regs[REG_FANCFG], LUT_DISABLE_BIT)
        /\ \A a \in LutAddrs : regs[a] = 0
        /\ wlog = <<REG_FANCFG>> \o SlotWrites

(* a table that was enabled has been reset *)
C23_Witness ==
    /\ Completed("reset_lookup_table")
    /\ ~HasBit(pre_cfg, LUT_DISABLE_BIT)

(* the transactions of a handler that writes the slots *)
SlotHandlerTrans(name, a, r, smax) ==
    IF name = "reset_lookup_table" THEN reset_lookup_table_trans(r)
    ELSE IF values_valid(a, smax) THEN update_lookup_table_trans(r, a)
    ELSE <<>>

IsSlotWrite(t) == IsWrite(t) /\ t.a \in LutAddrs

IsCfgWrite(t) == IsWrite(t) /\ t.a = REG_FANCFG

(* register 0x4A when the i-th of the transactions ts is carried out: what *)
(* the last write to it before the i-th has left, or what it held before   *)
CfgAt(r, ts, i) ==
    LET before == {j \in 1..(i - 1) : IsCfgWrite(ts[j])}
    IN IF before = {} THEN r[REG_FANCFG] ELSE ts[MaxOf(before)].v

SlotHandlers == {"update_lookup_table", "reset_lookup_table"}

(* C25: during update_lookup_table and reset_lookup_table every write to a *)
(* slot register 0x50..0x5F happens while the lookup table is disabled:    *)
(* the disable write to 0x4A precedes the first slot write, a re-enable    *)
(* write follows the last one.  The writes are those of the call, up to    *)
(* the transaction the register port fails, if it fails one.               *)
C25_SlotsWrittenWhileDisabled ==
    [][op' \in SlotHandlers =>
        \A ts \in {Executed(SlotHandlerTrans(op', arg', regs, step_max), fault_at')} :
            /\ wlog' = WritesOf(ts)
            /\ \A i \in 1..Len(ts) :
                  IsSlotWrite(ts[i]) => HasBit(CfgAt(regs, ts, i), LUT_DISABLE_BIT)]_vars

(* an enabled table has been rewritten: disabled, sixteen slot writes, *)
(* enabled again                                                       *)
C25_Witness ==
    /\ Completed("update_lookup_table") /\ ret = "True"
    /\ ~HasBit(pre_cfg, LUT_DISABLE_BIT)
    /\ wlog = <<REG_FANCFG>> \o SlotWrites \o <<REG_FANCFG>>

-----------------------------------------------------------------------------
(* The specification of two callers: update_lookup_table of each, one *)
(* register transaction at a time, on the same device                 *)

Callers == {1, 2}

Other(c) == 3 - c

(* the table each caller asks for *)
CallerValues == << << <<16, 3>>, <<40, 14>> >>, << <<24, 5>> >> >>

(* as if the slots were written whether the table is enabled or not *)
after_is_enabled_as_found(enabled) == "write"

(* lines 330-336: an enabled table is disabled first *)
after_is_enabled(enabled) == IF enabled THEN "disable_read" ELSE "write"

(* lines 351-354: the burst is over, an enabled table is enabled again *)
after_burst(f) ==
    IF Len(f.writes) > 1 THEN "write"
    ELSE IF f.reenable_lut THEN "enable_read" ELSE "done"

(* update_lookup_table goes on by one register transaction: the frame and *)
(* the registers it leaves                                                *)
update_step(f, r) ==
    IF f.pc = "is_enabled"
    THEN [frame |-> [f EXCEPT !.reenable_lut = lut_enabled(r),
                              !.pc = after_is_enabled(lut_enabled(r))],
          regs |-> r]
    ELSE IF f.pc = "disable_read"
    THEN [frame |-> [f EXCEPT !.value = r[REG_FANCFG], !.pc = "disable_write"],
          regs |-> r]
    ELSE IF f.pc = "disable_write"
    THEN [frame |-> [f EXCEPT !.pc = "write"],
          regs |-> [r EXCEPT ![REG_FANCFG] = OrBit(f.value, LUT_DISABLE_BIT)]]
    ELSE IF f.pc = "write"
    THEN [frame |-> [f EXCEPT !.writes = Tail(f.writes), !.pc = after_burst(f)],
          regs |-> ApplyTrans(r, <<Head(f.writes)>>)]
    ELSE IF f.pc = "enable_read"
    THEN [frame |-> [f EXCEPT !.value = r[REG_FANCFG], !.pc = "enable_write"],
          regs |-> r]
    ELSE [frame |-> [f EXCEPT !.pc = "done"],
          regs |-> [r EXCEPT ![REG_FANCFG] = ClrBit(f.value, LUT_DISABLE_BIT)]]

(* the caller is between two writes of its burst *)
InBurst(f) == f.pc = "write" /\ 0 < Len(f.writes) /\ Len(f.writes) < LUT_BYTES

(* the table is found enabled or disabled; the callers wrap each call by *)
(* a lock, or they do not                                                *)
RaceInit ==
    /\ regs \in {InitRegs(c, <<27, 0>>) : c \in {InitCfg, DEFAULT_FANCFG}}
    /\ step_max = STEP_MAX_DEFAULT
    /\ op = "init" /\ arg = <<>> /\ ret = "None" /\ wlog = <<>>
    /\ pre_cfg = regs[REG_FANCFG]
    /\ fault_at = 0
    /\ NoFacade
    /\ cal = CalIdle
    /\ call = NoCall
    /\ callers \in {[NoCallers EXCEPT !.locked = l] : l \in BOOLEAN}

(* lines 322-328: the call begins; values out of range end it at once *)
BeginUpdate(c) ==
    /\ callers.frames[c].pc = "idle"
    /\ callers.locked => callers.holder = 0
    /\ callers' =
          IF values_valid(CallerValues[c], step_max)
          THEN [callers EXCEPT !.frames[c] = [NoFrame EXCEPT !.pc = "is_enabled",
                                                               !.values = CallerValues[c],
                                                               !.writes = lut_writes(CallerValues[c])],
                               !.holder = IF callers.locked THEN c ELSE 0]
          ELSE [callers EXCEPT !.frames[c] = [NoFrame EXCEPT !.pc = "done"]]
    /\ UNCHANGED <<lutvars, devvars, cal, call>>

UpdateStep(c) ==
    /\ callers.frames[c].pc \notin {"idle", "done"}
    /\ callers.locked => callers.holder = c
    /\ regs' = update_step(callers.frames[c], regs).regs
    /\ callers' =
          [callers EXCEPT
              !.frames[c] = update_step(callers.frames[c], regs).frame,
              !.holder = IF update_step(callers.frames[c], regs).frame.pc = "done"
                         THEN 0 ELSE callers.holder,
              !.enabled_write = callers.enabled_write
                                \/ (callers.frames[c].pc = "write" /\ lut_enabled(regs)),
              !.split_burst = callers.split_burst \/ InBurst(callers.frames[Other(c)])]
    /\ UNCHANGED <<step_max, op, arg, ret, wlog, pre_cfg, fault_at, devvars, cal, call>>

RaceNext == \E c \in Callers : BeginUpdate(c) \/ UpdateStep(c)

SpecRace == RaceInit /\ [][RaceNext]_vars

-----------------------------------------------------------------------------
(* Properties of concurrent callers *)

BothDone == \A c \in Callers : callers.frames[c].pc = "done"

FinalTable == [i \in 1..LUT_BYTES |-> regs[REG_LUT_BASE + i - 1]]

TableAsked(c) == [i \in 1..LUT_BYTES |-> lut_writes(CallerValues[c])[i].v]

(* both calls are over and the table is neither caller's *)
Mixed == BothDone /\ \A c \in Callers : FinalTable # TableAsked(c)

(* C24: update_lookup_table is not safe to interleave.  When each call is  *)
(* wrapped as a unit by a lock, no slot register 0x50..0x5F is written     *)
(* while the table is enabled and the final table is one caller's table;   *)
(* without the lock the register transactions of the two calls interleave  *)
(* and a state is reachable in which a slot was written while the table    *)
(* was enabled (the witness).                                              *)
C24_LockedUpdatesDoNotInterfere ==
    callers.locked => (~callers.enabled_write /\ ~Mixed)

(* without a lock: both calls are over, a slot was written while the table *)
(* was enabled, and no burst of slot writes was interrupted                *)
C24_Witness ==
    /\ ~callers.locked /\ BothDone
    /\ callers.enabled_write /\ ~callers.split_burst

-----------------------------------------------------------------------------
(* Properties of the curve mapping *)

(* the window once the sample just taken is in it *)
WindowAfter == [cal.readings EXCEPT ![(cal.i % 3) + 1] = cal'.rpm_cur]

(* the last of the 24 samples of a step is taken: it is readable and the *)
(* step has not settled                                                  *)
NeverSettled ==
    /\ cal.pc = "mapping" /\ cal.i = SAMPLES - 1
    /\ cal'.ret # "ZeroDivisionError"
    /\ ~(cal'.pc = "done" /\ cal'.ret = "None")
    /\ ~settled(cal'.rpm_cur, WindowAfter)

(* rpm is the window's average, rounded as the settled steps are or not *)
IsWindowAverage(rpm, w) == rpm = rounded_rpm(w) \/ 3 * rpm = Sum3(w)

(* C26: during curve mapping, if all 24 samples of a step are readable but *)
(* none settles within 1% of the rolling-window average, the step is still *)
(* recorded, with the RPM of the last window average computed for that     *)
(* same step, and calibration goes on with the next step without failing;  *)
(* this holds for every step, the first one included.                      *)
C26_UnsettledStepRecorded ==
    [][NeverSettled =>
        /\ cal'.pc = "mapping" \/ cal'.ret = "FanConfig"
        /\ Len(cal'.mappings) = Len(cal.mappings) + 1
        /\ cal'.mappings[Len(cal'.mappings)][1] = cal.step
        /\ IsWindowAverage(cal'.mappings[Len(cal'.mappings)][3], WindowAfter)]_vars

-----------------------------------------------------------------------------
(* Properties of compaction *)

InProfile(m) == \E k \in 1..Len(cal.fan_profile.steps) : cal.fan_profile.steps[k] = m

(* the highest RPM recorded is at least r, and it is recorded *)
HighestRecorded(r) ==
    /\ \E k \in 1..Len(cal.mappings) : cal.mappings[k][3] = r
    /\ \A k \in 1..Len(cal.mappings) : cal.mappings[k][3] <= r

(* C27: in compaction a recorded step other than the last is kept if and *)
(* only if its RPM plus min_delta (0.011 * rpm_max) is at most the RPM   *)
(* of the recorded step that follows it; the last recorded step is       *)
(* always kept.                                                          *)
C27_KeptIffDistinctFromNext ==
    (CalDone /\ cal.ret = "FanConfig") =>
        \A r \in {cal.mappings[k][3] : k \in 1..Len(cal.mappings)} :
            HighestRecorded(r) =>
                /\ InProfile(cal.mappings[Len(cal.mappings)])
                /\ \A k \in 1..(Len(cal.mappings) - 1) :
                      InProfile(cal.mappings[k])
                          <=> (1000 * cal.mappings[k][3] + 11 * r
                                   <= 1000 * cal.mappings[k + 1][3])

(* some of four recorded steps are pruned and some of the others kept *)
C27_Witness ==
    /\ CalDone /\ cal.ret = "FanConfig"
    /\ Len(cal.mappings) = 4
    /\ Len(cal.fan_profile.steps) \in {2, 3}

-----------------------------------------------------------------------------
(* Properties of the tachometer limit *)

TachLimitWritten == regs[REG_TACH_LIMIT_LSB] + 256 * regs[REG_TACH_LIMIT_MSB]

(* C28: for every rpm >= 82, configure_minimum_rpm(rpm) writes to the    *)
(* tach-limit registers (0x48 low byte, 0x49 high byte) the 16-bit count *)
(* 5,400,000 // rpm, so that the limit converts back to the configured   *)
(* minimum RPM up to integer rounding.                                   *)
(* (stated for the counts that fit the two registers)                    *)
C28_TachLimitIsCountOfRpm ==
    (/\ op = "configure_minimum_rpm" /\ ret = "None"
     /\ arg[1] >= MIN_RPM
     /\ TACH_CLOCK \div arg[1] <= TACH_INVALID) =>
        TachLimitWritten = TACH_CLOCK \div arg[1]

-----------------------------------------------------------------------------
(* Properties of a calibration run *)

(* the run got past the validation of its arguments *)
CalStarted == cal.pwm_frequency # 0

(* C29: every calibration run on a device whose register reads and      *)
(* writes return terminates: it takes at most 2 probe samples plus 24   *)
(* samples for each of the 2 * pwm_f steps and ends by returning either *)
(* a profile or "no profile"; no step is sampled more than 24 times.    *)
C29_RunEndsWithProfileOrNone ==
    /\ cal.i < SAMPLES
    /\ Len(cal.mappings) <= Len(cal.steps_list)
    /\ (CalDone /\ CalStarted) => cal.ret \in {"FanConfig", "None"}

-----------------------------------------------------------------------------
(* Properties of the returned profile *)

ProfileReturned == CalDone /\ cal.ret = "FanConfig"

(* x is the least (sign = 1) or the greatest (sign = -1) of the values S *)
IsBoundOf(x, S, sign) == x \in S /\ \A y \in S : sign * x <= sign * y

StepKeys(steps) == {steps[k][1] : k \in 1..Len(steps)}

(* C30: every profile returned by calibration satisfies the FanProfile   *)
(* invariants and is built only from surviving steps: its step map is    *)
(* non-empty and contains the highest step, every key lies in            *)
(* 0..2*pwm_f-1, 0 <= minimum_duty_cycle <= maximum_duty_cycle <= 100,   *)
(* minimum_rpm <= maximum_rpm, and each of these four bounds is the      *)
(* minimum or maximum over the surviving steps' duty cycles and RPMs.    *)
C30_ProfileInvariants ==
    ProfileReturned =>
        \A p \in {cal.fan_profile} :
            \A n \in {2 * calculate_pwm_factors(cal.pwm_frequency)[2]} :
                /\ p.steps # <<>>
                /\ (n - 1) \in StepKeys(p.steps)
                /\ StepKeys(p.steps) \subseteq 0..(n - 1)
                /\ Cardinality(StepKeys(p.steps)) = Len(p.steps)
                /\ \A k \in 1..Len(p.steps) :
                      \E j \in 1..Len(cal.mappings) : cal.mappings[j] = p.steps[k]
                /\ 0 <= p.minimum_duty_cycle
                /\ p.minimum_duty_cycle <= p.maximum_duty_cycle
                /\ p.maximum_duty_cycle <= 100
                /\ p.minimum_rpm <= p.maximum_rpm
                /\ IsBoundOf(p.minimum_duty_cycle,
                             {p.steps[k][2] : k \in 1..Len(p.steps)}, 1)
                /\ IsBoundOf(p.maximum_duty_cycle,
                             {p.steps[k][2] : k \in 1..Len(p.steps)}, -1)
                /\ IsBoundOf(p.minimum_rpm, {p.steps[k][3] : k \in 1..Len(p.steps)}, 1)
                /\ IsBoundOf(p.maximum_rpm, {p.steps[k][3] : k \in 1..Len(p.steps)}, -1)

(* a profile whose first step was pruned and whose steps differ in RPM *)
C30_Witness ==
    /\ ProfileReturned
    /\ Len(cal.fan_profile.steps) >= 2
    /\ Len(cal.fan_profile.steps) < Len(cal.mappings)
    /\ cal.fan_profile.minimum_duty_cycle > 0
    /\ cal.fan_profile.minimum_rpm < cal.fan_profile.maximum_rpm

=============================================================================
